---- MODULE Spec2Model ----
(***************************************************************************)
(* A model of the MusicXML importer of pymusicxml                          *)
(* (src/pymusicxml/importers).  The importer is a single-threaded          *)
(* traversal of a parsed document, so each component is modelled as its    *)
(* own specification over the shared variables:                            *)
(*                                                                         *)
(*   SpecMeasure  the position-tracking pass of ScoreImporter._import_     *)
(*                measure and the directions list built from it            *)
(*   SpecPart     the measure loop of ScoreImporter._import_part and the   *)
(*                divisions value each measure resolves                    *)
(*   SpecScore    ScoreImporter.import_score / _import_partwise_score      *)
(*   SpecGroups   MusicalElementsImporter.identify_groups_in_measure and   *)
(*                ScoreImporter._import_measure_contents                   *)
(*   SpecChord    MusicalElementsImporter.import_chord                     *)
(*                                                                         *)
(* Numbers.  A text that the code hands to float() is a record             *)
(* [k, v]: k = "absent" (no element or empty text), k = "bad"              *)
(* (float() raises ValueError) or k = "num" with the integer v.            *)
(* Positions are kept in ticks over the measure's divisions: every         *)
(* quantity of one measure is a multiple of 1/divisions, and the inputs    *)
(* are small integers over divisions 1, 2 and 4, for which Python's float  *)
(* arithmetic is exact.  A quarter-note value is the pair                  *)
(* [num |-> ticks, den |-> divisions].                                     *)
(***************************************************************************)
EXTENDS Integers, Sequences, FiniteSets, TLC

VARIABLES
    comp,                 \* which component this behaviour runs
    pc,                   \* position of the running handler
    (* ScoreImporter._import_measure, position pass *)
    children,             \* the measure's child elements read so far
    divisions,            \* local "divisions" of _import_measure
    current_position,     \* the cursor, in ticks of 1/divisions quarter
    cursors,              \* history: the cursor after each child
    element_positions,    \* per child: <<>> (no entry) or <<ticks>>
    directions_with_displacements,
    (* ScoreImporter._import_part *)
    measure_elems,        \* the part's measure elements read so far
    current_divisions,    \* <<>> for None, <<d>> for the float d
    measures,             \* the Measure objects appended so far
    (* ScoreImporter.import_score, _import_partwise_score, _import_part_list *)
    root,                 \* self.root.tag
    has_part_list,        \* the document holds a part-list element
    part_elems,           \* ids of the document's part elements
    part_list,            \* children of part-list read so far
    current_group,        \* <<>> for None, <<g>> for the open group
    group_parts,
    parts_and_groups,
    outcome,              \* what import_score returned or raised
    (* MusicalElementsImporter.identify_groups_in_measure and
       ScoreImporter._import_measure_contents *)
    note_elems,           \* find_elements(measure_elem, "note")
    tuplet_groups,        \* the spans of the tuplet pass, in list order
    beam_groups,          \* the spans of the beam pass, in list order
    processed_indices,    \* processed_indices after each of the three passes
    note_positions,       \* identify_groups_in_measure's element_positions
    all_elements,         \* sorted_result
    voice_elements,       \* the dict of line 461, in insertion order
    contents,             \* what _import_measure_contents returns
    (* MusicalElementsImporter.import_chord *)
    chord_notes,          \* the note elements handed to import_chord
    imported_chord,       \* <<>> for None, else <<the Chord import_chord returns>>
    (* the float() conversions of number texts met during an import *)
    number_texts,         \* the texts still to be met, in the order met
    conversions,          \* what each text met so far was converted to
    (* DirectionsImporter.import_direction *)
    direction_types,      \* find_elements(direction_elem, "direction-type")
    dt_index,             \* how many of them the loop has examined
    text_annotation,      \* <<>> for None, else <<the TextAnnotation>>
    direction,            \* <<>> for None, else <<the object returned>>
    (* ScoreImporter._import_measure, the Measure's scalar attributes *)
    measure_elem,         \* the measure element and its attributes child
    measure,              \* <<>> before the call, else <<the Measure>>
    (* MusicalElementsImporter.import_duration *)
    dotted_note,          \* the note element and the find_element passed
    imported_duration     \* <<>> before the call, else <<the Duration>>

trackVars == <<children, divisions, current_position, cursors,
               element_positions, directions_with_displacements>>

partVars == <<measure_elems, current_divisions, measures>>

scoreVars == <<root, has_part_list, part_elems, part_list, current_group,
               group_parts, parts_and_groups, outcome>>

groupVars == <<note_elems, tuplet_groups, beam_groups, processed_indices,
               note_positions, all_elements, voice_elements, contents>>

chordVars == <<chord_notes, imported_chord>>

textVars == <<number_texts, conversions>>

directionVars == <<direction_types, dt_index, text_annotation, direction>>

attrVars == <<measure_elem, measure>>

durationVars == <<dotted_note, imported_duration>>

vars == <<comp, pc, trackVars, partVars, scoreVars, groupVars, chordVars,
          textVars, directionVars, attrVars, durationVars>>

(***************************************************************************)
(* Texts and float()                                                       *)
(***************************************************************************)
Absent == [k |-> "absent", v |-> 0]
Bad == [k |-> "bad", v |-> 0]
Num(n) == [k |-> "num", v |-> n]

\* "if text:" followed by float(text) succeeding
IsNumeric(t) == t.k = "num"

Max(a, b) == IF a >= b THEN a ELSE b

(***************************************************************************)
(* Bounds of the model                                                     *)
(***************************************************************************)
MaxChildren == 3
MaxMeasures == 3
MaxPartList == 4
MaxNotes == 3
MaxGliss == 3
MaxTexts == 3
MaxShapes == 3
MaxDots == 2

(***************************************************************************)
(* Idle values: a component that a behaviour does not run keeps these.     *)
(***************************************************************************)
TrackIdle ==
    /\ children = <<>>
    /\ divisions = 1
    /\ current_position = 0
    /\ cursors = <<>>
    /\ element_positions = <<>>
    /\ directions_with_displacements = <<>>

PartIdle ==
    /\ measure_elems = <<>>
    /\ current_divisions = <<>>
    /\ measures = <<>>

ScoreIdle ==
    /\ root = "score-partwise"
    /\ has_part_list = TRUE
    /\ part_elems = {}
    /\ part_list = <<>>
    /\ current_group = <<>>
    /\ group_parts = <<>>
    /\ parts_and_groups = <<>>
    /\ outcome = "none"

NoContents == [shape |-> "lists", elements |-> <<>>, lists |-> <<>>]

TextIdle ==
    /\ number_texts = <<>>
    /\ conversions = <<>>

DirectionIdle ==
    /\ direction_types = <<>>
    /\ dt_index = 0
    /\ text_annotation = <<>>
    /\ direction = <<>>

NoMeasureElem ==
    [number |-> "1", implicit |-> FALSE, time |-> <<>>, fifths |-> <<>>,
     clef |-> <<>>, barline |-> <<>>]

AttrIdle ==
    /\ measure_elem = NoMeasureElem
    /\ measure = <<>>

NoDottedNote == [finder |-> "first", type |-> <<>>, dots |-> 0, tm |-> <<>>]

DurationIdle ==
    /\ dotted_note = NoDottedNote
    /\ imported_duration = <<>>

ChordIdle ==
    /\ chord_notes = <<>>
    /\ imported_chord = <<>>

GroupIdle ==
    /\ note_elems = <<>>
    /\ tuplet_groups = <<>>
    /\ beam_groups = <<>>
    /\ processed_indices = [tuplet |-> {}, beam |-> {}, leftover |-> {}]
    /\ note_positions = <<>>
    /\ all_elements = <<>>
    /\ voice_elements = <<>>
    /\ contents = NoContents

(***************************************************************************)
(* Divisions of a measure: _import_measure lines 246-261.                  *)
(* inherited is <<>> for None or <<d>>; "inherited_divisions or 1" takes   *)
(* 1 for None and for 0.0.  The measure's own attributes/divisions text,   *)
(* when float() accepts it, overrides.                                     *)
(***************************************************************************)
InheritedOrOne(inherited) ==
    IF inherited = <<>> \/ inherited[1] = 0 THEN 1 ELSE inherited[1]

ResolveDivisions(inherited, has_attributes, divisions_text) ==
    IF has_attributes /\ IsNumeric(divisions_text)
    THEN divisions_text.v
    ELSE InheritedOrOne(inherited)

(***************************************************************************)
(* The position pass of _import_measure, lines 329-402.                    *)
(* A child of the measure:                                                 *)
(*   tag        "note", "forward", "backup", "direction", "harmony"        *)
(*   chord      the note has a chord element                               *)
(*   grace      the note has a grace element                               *)
(*   duration   text of the duration element                               *)
(*   offset     text of the offset element of a direction or harmony       *)
(*   recognized import_direction returns an object for it                  *)
(***************************************************************************)
Child(tag, chord, grace, duration, offset, recognized) ==
    [tag |-> tag, chord |-> chord, grace |-> grace, duration |-> duration,
     offset |-> offset, recognized |-> recognized]

NoteChildren ==
    { Child("note", FALSE, FALSE, d, Absent, FALSE) : d \in {Num(4), Num(2), Num(-4), Bad} }
    \cup { Child("note", TRUE, FALSE, Num(4), Absent, FALSE),
           Child("note", FALSE, TRUE, Absent, Absent, FALSE) }

ForwardChildren ==
    { Child("forward", FALSE, FALSE, d, Absent, FALSE) : d \in {Num(2), Bad} }

BackupChildren ==
    { Child("backup", FALSE, FALSE, d, Absent, FALSE) : d \in {Num(2), Num(8), Bad} }

DirectionChildren ==
    { Child("direction", FALSE, FALSE, Absent, o, TRUE) : o \in {Absent, Num(2), Num(-6), Bad} }
    \cup { Child("direction", FALSE, FALSE, Absent, Absent, FALSE) }

HarmonyChildren ==
    { Child("harmony", FALSE, FALSE, Absent, o, TRUE) : o \in {Absent, Num(-2)} }

\* The divisions a measure can start the pass with.
MeasureDivisions ==
    { ResolveDivisions(i, TRUE, t) : i \in {<<>>, <<2>>}, t \in {Absent, Num(4), Num(0)} }

\* line 356 and line 369: the cursor after a note, rest or forward of d ticks
AdvancePosition(position, d) == position + d

\* BackupPosition without the clamp of line 384
BackupPosition_NoClamp(position, d) == position - d

\* lines 382-384: the cursor after a backup of d ticks, clamped at 0
BackupPosition(position, d) == Max(0, position - d)

\* OffsetPosition with the offset dropped
OffsetPosition_Ignored(position, off) == position

\* lines 390-400: the entry of a direction or harmony with a numeric offset
OffsetPosition(position, off) == position + off

GraceStep_Advances(position) ==
    [raise |-> FALSE, position |-> position + 1, entry |-> <<position>>]

\* lines 343-345: a grace note records the cursor and leaves it
GraceStep(position) ==
    [raise |-> FALSE, position |-> position, entry |-> <<position>>]

SkipStep_Records(position) ==
    [raise |-> FALSE, position |-> position, entry |-> <<position>>]

\* lines 349-350 and 357-358, and the same in lines 362-371 and 375-386: a
\* duration text that is empty or that float() rejects; nothing is
\* recorded and the cursor stays
SkipStep(position) ==
    [raise |-> FALSE, position |-> position, entry |-> <<>>]

(* One iteration of the loop of line 333 on child c.  raise is the        *)
(* ZeroDivisionError of "/ divisions" (only ValueError is caught);        *)
(* entry is <<>> when element_positions gets no key for c.                *)
PositionStep(c, position, div) ==
    LET keep == [raise |-> FALSE, position |-> position, entry |-> <<>>]
        zero == [raise |-> TRUE, position |-> position, entry |-> <<>>]
    IN  CASE c.tag = "note" ->
               IF c.chord THEN keep
               ELSE IF c.grace THEN GraceStep(position)
               ELSE IF ~IsNumeric(c.duration) THEN SkipStep(position)
               ELSE IF div = 0 THEN zero
               ELSE [raise |-> FALSE,
                     position |-> AdvancePosition(position, c.duration.v),
                     entry |-> <<position>>]
          [] c.tag = "forward" ->
               IF ~IsNumeric(c.duration) THEN SkipStep(position)
               ELSE IF div = 0 THEN zero
               ELSE [keep EXCEPT !.position = AdvancePosition(position, c.duration.v)]
          [] c.tag = "backup" ->
               IF ~IsNumeric(c.duration) THEN SkipStep(position)
               ELSE IF div = 0 THEN zero
               ELSE [keep EXCEPT !.position = BackupPosition(position, c.duration.v)]
          [] c.tag \in {"direction", "harmony"} ->
               IF ~IsNumeric(c.offset) THEN [keep EXCEPT !.entry = <<position>>]
               ELSE IF div = 0 THEN zero
               ELSE [keep EXCEPT !.entry = <<OffsetPosition(position, c.offset.v)>>]

TrackChild(c) ==
    /\ comp = "measure"
    /\ pc = "track"
    /\ Len(children) < MaxChildren
    /\ LET r == PositionStep(c, current_position, divisions)
       IN  /\ children' = Append(children, c)
           /\ IF r.raise
              THEN /\ pc' = "raised"
                   /\ UNCHANGED <<current_position, cursors, element_positions>>
              ELSE /\ pc' = pc
                   /\ current_position' = r.position
                   /\ cursors' = Append(cursors, r.position)
                   /\ element_positions' = Append(element_positions, r.entry)
    /\ UNCHANGED <<comp, divisions, directions_with_displacements, partVars, scoreVars, groupVars, chordVars, textVars, directionVars, attrVars, durationVars>>

TrackNote == \E c \in NoteChildren : TrackChild(c)
TrackForward == \E c \in ForwardChildren : TrackChild(c)
TrackBackup == \E c \in BackupChildren : TrackChild(c)
TrackDirection == \E c \in DirectionChildren : TrackChild(c)
TrackHarmony == \E c \in HarmonyChildren : TrackChild(c)

\* A position in quarter notes: ticks over divisions (no tick was ever
\* converted when divisions is 0, and every recorded position is then 0.0).
Quarters(ticks) == [num |-> ticks, den |-> IF divisions = 0 THEN 1 ELSE divisions]

\* element_positions.get(elem, 0.0) of lines 415 and 430
PositionOf(i) == IF element_positions[i] = <<>> THEN 0 ELSE element_positions[i][1]

RECURSIVE DirectionsOf(_, _)
\* the loops of lines 408-416 ("direction") and 419-431 ("harmony") from child i on
DirectionsOf(tag, i) ==
    IF i > Len(children) THEN <<>>
    ELSE IF children[i].tag = tag /\ children[i].recognized
         THEN <<[elem |-> i, displacement |-> Quarters(PositionOf(i))]>>
              \o DirectionsOf(tag, i + 1)
         ELSE DirectionsOf(tag, i + 1)

\* lines 404-446: the pass is over, the directions list is built
FinishMeasure ==
    /\ comp = "measure"
    /\ pc = "track"
    /\ pc' = "done"
    /\ directions_with_displacements' =
           DirectionsOf("direction", 1) \o DirectionsOf("harmony", 1)
    /\ UNCHANGED <<comp, children, divisions, current_position, cursors,
                   element_positions, partVars, scoreVars, groupVars, chordVars, textVars, directionVars, attrVars, durationVars>>

InitMeasure ==
    /\ comp = "measure"
    /\ pc = "track"
    /\ children = <<>>
    /\ divisions \in MeasureDivisions
    /\ current_position = 0
    /\ cursors = <<>>
    /\ element_positions = <<>>
    /\ directions_with_displacements = <<>>
    /\ PartIdle
    /\ ScoreIdle
    /\ GroupIdle
    /\ ChordIdle
    /\ TextIdle
    /\ DirectionIdle
    /\ AttrIdle
    /\ DurationIdle

NextMeasure ==
    \/ TrackNote
    \/ TrackForward
    \/ TrackBackup
    \/ TrackDirection
    \/ TrackHarmony
    \/ FinishMeasure

SpecMeasure == InitMeasure /\ [][NextMeasure]_vars


(***************************************************************************)
(* ScoreImporter._import_part, lines 207-229: the loop over the part's     *)
(* measures.  A measure element here is                                    *)
(*   has_attributes  it has an attributes child                            *)
(*   divisions_text  text of attributes/divisions                          *)
(*   converts        the measure holds an element whose numeric duration   *)
(*                   or offset the position pass divides by divisions      *)
(***************************************************************************)
MeasureElem(has_attributes, divisions_text, converts) ==
    [has_attributes |-> has_attributes, divisions_text |-> divisions_text,
     converts |-> converts]

MeasureElems ==
    { MeasureElem(FALSE, Absent, c) : c \in BOOLEAN }
    \cup { MeasureElem(TRUE, t, c) :
             t \in {Absent, Bad, Num(0), Num(2), Num(4)}, c \in BOOLEAN }

\* UpdateCurrentDivisions that does not carry the value forward
UpdateCurrentDivisions_Forget(current, m) == current

\* lines 213-220: current_divisions after looking at measure m
UpdateCurrentDivisions(current, m) ==
    IF m.has_attributes /\ IsNumeric(m.divisions_text)
    THEN <<m.divisions_text.v>>
    ELSE current

\* lines 211-224: one iteration; _import_measure raises ZeroDivisionError
\* when it converts a duration with divisions = 0
ImportPartMeasure ==
    /\ comp = "part"
    /\ pc = "measures"
    /\ Len(measure_elems) < MaxMeasures
    /\ \E m \in MeasureElems :
         LET cd == UpdateCurrentDivisions(current_divisions, m)
             d == ResolveDivisions(cd, m.has_attributes, m.divisions_text)
         IN  /\ measure_elems' = Append(measure_elems, m)
             /\ current_divisions' = cd
             /\ IF m.converts /\ d = 0
                THEN pc' = "raised" /\ measures' = measures
                ELSE pc' = pc /\ measures' = Append(measures, [original_divisions |-> d])
    /\ UNCHANGED <<comp, trackVars, scoreVars, groupVars, chordVars, textVars, directionVars, attrVars, durationVars>>

\* lines 226-229
FinishPart ==
    /\ comp = "part"
    /\ pc = "measures"
    /\ pc' = "done"
    /\ UNCHANGED <<comp, trackVars, partVars, scoreVars, groupVars, chordVars, textVars, directionVars, attrVars, durationVars>>

InitPart ==
    /\ comp = "part"
    /\ pc = "measures"
    /\ TrackIdle
    /\ PartIdle
    /\ ScoreIdle
    /\ GroupIdle
    /\ ChordIdle
    /\ TextIdle
    /\ DirectionIdle
    /\ AttrIdle
    /\ DurationIdle

NextPart ==
    \/ ImportPartMeasure
    \/ FinishPart

SpecPart == InitPart /\ [][NextPart]_vars

(***************************************************************************)
(* ScoreImporter.import_score, _import_partwise_score, _import_part_list   *)
(***************************************************************************)
RootTags == {"score-partwise", "score-timewise", "opus"}
PartIds == {1, 2}

\* ScoreType that sends a timewise root down the partwise branch
ScoreType_TimewiseAccepted(tag) ==
    IF tag \in {"score-partwise", "score-timewise"} THEN "partwise" ELSE "unknown"

\* lines 55-62: the branch import_score takes on the root tag
ScoreType(tag) ==
    IF tag = "score-partwise" THEN "partwise"
    ELSE IF tag = "score-timewise" THEN "timewise"
    ELSE "unknown"

ImportScore ==
    /\ comp = "score"
    /\ pc = "start"
    /\ CASE ScoreType(root) = "partwise" -> pc' = "partwise" /\ outcome' = outcome
         [] ScoreType(root) = "timewise" -> pc' = "raised" /\ outcome' = "NotImplementedError"
         [] OTHER -> pc' = "raised" /\ outcome' = "ValueError_unknown_score_type"
    /\ UNCHANGED <<comp, root, has_part_list, part_elems, part_list, current_group,
                   group_parts, parts_and_groups, trackVars, partVars, groupVars, chordVars, textVars, directionVars, attrVars, durationVars>>

\* line 113: _find_element(self.root, "part-list", required=True)
FindPartList ==
    /\ comp = "score"
    /\ pc = "partwise"
    /\ IF has_part_list
       THEN pc' = "part_list" /\ outcome' = outcome
       ELSE pc' = "raised" /\ outcome' = "ValueError_required_element"
    /\ UNCHANGED <<comp, root, has_part_list, part_elems, part_list, current_group,
                   group_parts, parts_and_groups, trackVars, partVars, groupVars, chordVars, textVars, directionVars, attrVars, durationVars>>

Part(id) == [kind |-> "Part", id |-> id, parts |-> <<>>]
PartGroup_FirstOnly(parts) == [kind |-> "PartGroup", id |-> 0, parts |-> <<parts[1]>>]

\* lines 166-172 and 188-194: PartGroup(parts=group_parts, ...)
PartGroup(parts) == [kind |-> "PartGroup", id |-> 0, parts |-> parts]

\* lines 142-161: <part-group type="start">
PartGroupStart ==
    /\ comp = "score"
    /\ pc = "part_list"
    /\ Len(part_list) < MaxPartList
    /\ part_list' = Append(part_list, [tag |-> "part-group", type |-> "start", id |-> 0])
    /\ current_group' = <<[has_bracket |-> TRUE, has_group_bar_line |-> TRUE]>>
    /\ group_parts' = <<>>
    /\ UNCHANGED <<comp, pc, root, has_part_list, part_elems, parts_and_groups,
                   outcome, trackVars, partVars, groupVars, chordVars, textVars, directionVars, attrVars, durationVars>>

\* lines 162-173: <part-group type="stop">
PartGroupStop ==
    /\ comp = "score"
    /\ pc = "part_list"
    /\ Len(part_list) < MaxPartList
    /\ part_list' = Append(part_list, [tag |-> "part-group", type |-> "stop", id |-> 0])
    /\ IF current_group # <<>>
       THEN /\ parts_and_groups' =
                  IF group_parts # <<>>
                  THEN Append(parts_and_groups, PartGroup(group_parts))
                  ELSE parts_and_groups
            /\ current_group' = <<>>
            /\ group_parts' = <<>>
       ELSE UNCHANGED <<parts_and_groups, current_group, group_parts>>
    /\ UNCHANGED <<comp, pc, root, has_part_list, part_elems, outcome,
                   trackVars, partVars, groupVars, chordVars, textVars, directionVars, attrVars, durationVars>>

\* lines 175-184: <score-part id="...">
ScorePart ==
    /\ comp = "score"
    /\ pc = "part_list"
    /\ Len(part_list) < MaxPartList
    /\ \E id \in PartIds :
         /\ part_list' = Append(part_list, [tag |-> "score-part", type |-> "", id |-> id])
         /\ IF id \in part_elems
            THEN IF current_group # <<>>
                 THEN /\ group_parts' = Append(group_parts, Part(id))
                      /\ parts_and_groups' = parts_and_groups
                 ELSE /\ parts_and_groups' = Append(parts_and_groups, Part(id))
                      /\ group_parts' = group_parts
            ELSE UNCHANGED <<group_parts, parts_and_groups>>
    /\ UNCHANGED <<comp, pc, root, has_part_list, part_elems, current_group,
                   outcome, trackVars, partVars, groupVars, chordVars, textVars, directionVars, attrVars, durationVars>>

\* lines 186-196 and 116-119: unclosed group, then the Score is returned
FinishPartList ==
    /\ comp = "score"
    /\ pc = "part_list"
    /\ pc' = "returned"
    /\ outcome' = "Score"
    /\ parts_and_groups' =
          IF current_group # <<>> /\ group_parts # <<>>
          THEN Append(parts_and_groups, PartGroup(group_parts))
          ELSE parts_and_groups
    /\ UNCHANGED <<comp, root, has_part_list, part_elems, part_list, current_group,
                   group_parts, trackVars, partVars, groupVars, chordVars, textVars, directionVars, attrVars, durationVars>>

InitScore ==
    /\ comp = "score"
    /\ pc = "start"
    /\ root \in RootTags
    /\ has_part_list \in BOOLEAN
    /\ part_elems \in SUBSET PartIds
    /\ part_list = <<>>
    /\ current_group = <<>>
    /\ group_parts = <<>>
    /\ parts_and_groups = <<>>
    /\ outcome = "none"
    /\ TrackIdle
    /\ PartIdle
    /\ GroupIdle
    /\ ChordIdle
    /\ TextIdle
    /\ DirectionIdle
    /\ AttrIdle
    /\ DurationIdle

NextScore ==
    \/ ImportScore
    \/ FindPartList
    \/ PartGroupStart
    \/ PartGroupStop
    \/ ScorePart
    \/ FinishPartList

SpecScore == InitScore /\ [][NextScore]_vars


(***************************************************************************)
(* MusicalElementsImporter: the note elements of a measure.  Indices are   *)
(* 1-based here and 0-based in the source.  A note element:                *)
(*   chord   it has a chord element (a chord member)                       *)
(*   kind    "pitch" (import_pitch returns a Pitch), "rest" (it has a rest *)
(*           element), "none" (neither: import_note returns None)          *)
(*   voice   <<>> when it has no voice element, else <<v>>                 *)
(*   tm      <<>> when it has no time-modification, else                   *)
(*           <<actual-notes, normal-notes>>                                *)
(*   tuplet  type of the first notations/tuplet element, or "none"         *)
(*   beams   the texts of its beam elements, in document order             *)
(***************************************************************************)
NoteElem(chord, kind, voice, tm, tuplet, beams) ==
    [chord |-> chord, kind |-> kind, voice |-> voice, tm |-> tm,
     tuplet |-> tuplet, beams |-> beams]

\* notes that differ in voice, with a chord member and a beamed pair
VoiceFamily ==
    { NoteElem(FALSE, "pitch", v, <<>>, "none", <<>>) : v \in {<<>>, <<1>>, <<2>>, <<3>>} }
    \cup { NoteElem(TRUE, "pitch", <<2>>, <<>>, "none", <<>>),
           NoteElem(FALSE, "rest", <<1>>, <<>>, "none", <<>>),
           NoteElem(FALSE, "pitch", <<2>>, <<>>, "none", <<"begin">>),
           NoteElem(FALSE, "pitch", <<2>>, <<>>, "none", <<"end">>) }

\* notes of one voice that differ in time-modification and tuplet marker
TupletFamily ==
    { NoteElem(FALSE, "pitch", <<1>>, <<>>, t, <<>>) : t \in {"none", "start", "stop"} }
    \cup { NoteElem(FALSE, "pitch", <<1>>, <<3, 2>>, t, <<>>) : t \in {"none", "start", "stop"} }
    \cup { NoteElem(FALSE, "pitch", <<1>>, <<2, 2>>, "start", <<>>),
           NoteElem(FALSE, "pitch", <<1>>, <<5, 4>>, "none", <<>>),
           NoteElem(TRUE, "pitch", <<1>>, <<3, 2>>, "none", <<>>),
           NoteElem(FALSE, "none", <<1>>, <<3, 2>>, "none", <<>>),
           NoteElem(FALSE, "rest", <<1>>, <<3, 2>>, "none", <<>>) }

\* triplet notes of two voices, with tuplet markers in either voice
CrossVoiceFamily ==
    { NoteElem(FALSE, "pitch", <<v>>, <<3, 2>>, t, <<>>) :
         v \in {1, 2}, t \in {"none", "start", "stop"} }

\* notes of one voice that differ in their beam elements (beam 1 first)
BeamFamily ==
    { NoteElem(FALSE, "pitch", <<1>>, <<>>, "none", b) :
         b \in { <<>>, <<"begin">>, <<"continue">>, <<"end">>,
                  <<"continue", "begin">>, <<"continue", "end">>, <<"end", "end">> } }

\* notes of one voice that differ in what import_pitch finds: lead notes
\* with a pitch, a rest or neither (unpitched), unpitched lead notes that
\* open and close a beam, and chord members with and without a pitch
PitchlessFamily ==
    { NoteElem(FALSE, k, <<1>>, <<>>, "none", <<>>) : k \in {"pitch", "rest", "none"} }
    \cup { NoteElem(FALSE, "none", <<1>>, <<>>, "none", <<b>>) : b \in {"begin", "end"} }
    \cup { NoteElem(TRUE, k, <<1>>, <<>>, "none", <<>>) : k \in {"pitch", "none"} }

NoteFamilies == {VoiceFamily, TupletFamily, CrossVoiceFamily, BeamFamily, PitchlessFamily}

\* the measure of test_element_order_preservation: a quarter note, four
\* beamed sixteenths, a chord of three notes
OrderDocument ==
    << NoteElem(FALSE, "pitch", <<1>>, <<>>, "none", <<>>),
       NoteElem(FALSE, "pitch", <<1>>, <<>>, "none", <<"begin", "begin">>),
       NoteElem(FALSE, "pitch", <<1>>, <<>>, "none", <<"continue", "continue">>),
       NoteElem(FALSE, "pitch", <<1>>, <<>>, "none", <<"continue", "continue">>),
       NoteElem(FALSE, "pitch", <<1>>, <<>>, "none", <<"end", "end">>),
       NoteElem(FALSE, "pitch", <<1>>, <<>>, "none", <<>>),
       NoteElem(TRUE, "pitch", <<1>>, <<>>, "none", <<>>),
       NoteElem(TRUE, "pitch", <<1>>, <<>>, "none", <<>>) >>

NumNotes == Len(note_elems)
IsChord(i) == note_elems[i].chord

\* An object of the score model.  idx..end are the note indices it was
\* built from, pitches the indices of the notes whose pitch it holds,
\* ratio its duration's tuplet_ratio (a leaf) or its ratio (a Tuplet),
\* voice the attribute the importer assigns (<<>>: none assigned).
Node(type, idx, end, voice, ratio, pitches, elems) ==
    [type |-> type, idx |-> idx, end |-> end, voice |-> voice, ratio |-> ratio,
     pitches |-> pitches, contents |-> elems]

\* import_duration, lines 78-87: tuplet_ratio of the Duration
ImportDurationRatio(n) ==
    IF n.tm # <<>> /\ n.tm[1] # n.tm[2] THEN n.tm ELSE <<>>

\* import_note, lines 187-328: <<>> for None
ImportNote(i) ==
    LET n == note_elems[i]
    IN  IF n.chord THEN <<>>
        ELSE IF n.kind = "rest"
             THEN <<Node("Rest", i, i, n.voice, ImportDurationRatio(n), <<>>, <<>>)>>
        ELSE IF n.kind = "pitch"
             THEN <<Node("Note", i, i, n.voice, ImportDurationRatio(n), <<i>>, <<>>)>>
        ELSE <<>>

RECURSIVE LastFollower(_, _)
\* the last index of the chord-flagged notes that directly follow index i,
\* none beyond limit (lines 511 and 742); i itself when there is none
LastFollower(i, limit) ==
    IF i + 1 <= NumNotes /\ i + 1 <= limit /\ IsChord(i + 1)
    THEN LastFollower(i + 1, limit)
    ELSE i

RECURSIVE PitchesOf(_, _)
\* lines 354-357: the pitches of chord_notes = notes first..last
PitchesOf(first, last) ==
    IF first > last THEN <<>>
    ELSE (IF note_elems[first].kind = "pitch" THEN <<first>> ELSE <<>>)
         \o PitchesOf(first + 1, last)

ImportChord_EmptyAllowed(first, last) ==
    <<Node("Chord", first, last, note_elems[first].voice,
           ImportDurationRatio(note_elems[first]), PitchesOf(first, last), <<>>)>>

\* import_chord, lines 331-472: <<>> for None
ImportChord(first, last) ==
    IF PitchesOf(first, last) = <<>> THEN <<>>
    ELSE <<Node("Chord", first, last, note_elems[first].voice,
                ImportDurationRatio(note_elems[first]), PitchesOf(first, last), <<>>)>>

RECURSIVE GroupContents(_, _)
\* import_beamed_group, lines 494-526: the while loop from current_idx on
GroupContents(current_idx, end_idx) ==
    IF current_idx > end_idx THEN <<>>
    ELSE IF IsChord(current_idx) THEN GroupContents(current_idx + 1, end_idx)
    ELSE LET last == LastFollower(current_idx, end_idx)
         IN  IF last > current_idx
             THEN ImportChord(current_idx, last) \o GroupContents(last + 1, end_idx)
             ELSE ImportNote(current_idx) \o GroupContents(current_idx + 1, end_idx)

\* import_beamed_group, lines 475-532
ImportBeamedGroup(start_idx, end_idx) ==
    IF NumNotes = 0 \/ start_idx > NumNotes \/ end_idx > NumNotes THEN <<>>
    ELSE IF GroupContents(start_idx, end_idx) = <<>> THEN <<>>
    ELSE <<Node("BeamedGroup", start_idx, end_idx, <<>>, <<>>, <<>>,
                GroupContents(start_idx, end_idx))>>

\* import_tuplet, lines 535-579
ImportTuplet(start_idx, end_idx) ==
    IF NumNotes = 0 \/ start_idx > NumNotes \/ end_idx > NumNotes THEN <<>>
    ELSE IF ImportBeamedGroup(start_idx, end_idx) = <<>> THEN <<>>
    ELSE IF note_elems[start_idx].tm = <<>> THEN <<>>
    ELSE IF note_elems[start_idx].tm[1] = note_elems[start_idx].tm[2] THEN <<>>
    ELSE <<Node("Tuplet", start_idx, end_idx, <<>>, note_elems[start_idx].tm, <<>>,
                ImportBeamedGroup(start_idx, end_idx)[1].contents)>>

RECURSIVE InferEnd(_, _)
\* lines 659-671: tuplet_end of the look-ahead from note i, looking at j
InferEnd(i, j) ==
    IF j > NumNotes THEN j - 1
    ELSE IF note_elems[j].tm # <<>> /\ note_elems[j].tm = note_elems[i].tm
         THEN InferEnd(i, j + 1)
         ELSE j - 1

CloseTuplet_OffByOne(start, i) == [start |-> start, end |-> i - 1]

\* lines 643-647: the span a tuplet-stop on note i closes
CloseTuplet(start, i) == [start |-> start, end |-> i]

RECURSIVE TupletScan(_, _, _)
\* lines 620-674: the loop from note i on; current_tuplet is <<>> for None
\* or <<start>>.  (No index is in processed_indices before its own turn.)
TupletScan(i, current_tuplet, groups) ==
    IF i > NumNotes THEN groups
    ELSE IF IsChord(i) THEN TupletScan(i + 1, current_tuplet, groups)
    ELSE LET n == note_elems[i]
             opened == IF n.tuplet = "start" THEN <<i>> ELSE current_tuplet
             closes == n.tuplet = "stop" /\ opened # <<>>
             closed == IF closes THEN Append(groups, CloseTuplet(opened[1], i)) ELSE groups
             current == IF closes THEN <<>> ELSE opened
             infers == /\ n.tm # <<>>
                       /\ current = <<>>
                       /\ n.tm[1] # n.tm[2]
                       /\ InferEnd(i, i + 1) > i
             inferred == IF infers
                         THEN Append(closed, [start |-> i, end |-> InferEnd(i, i + 1)])
                         ELSE closed
         IN  TupletScan(i + 1, current, inferred)

ChordIndices == { i \in 1..NumNotes : IsChord(i) }

NoPositions == [i \in 1..NumNotes |-> <<>>]

RECURSIVE CreateGroups(_, _, _, _)
\* lines 677-685 (tuplets) and 719-727 (beams): groups k.. of the list are
\* imported; st holds element_positions and processed_indices
CreateGroups(type, groups, k, st) ==
    IF k > Len(groups) THEN st
    ELSE LET g == groups[k]
             made == IF type = "Tuplet"
                     THEN ImportTuplet(g.start, g.end)
                     ELSE ImportBeamedGroup(g.start, g.end)
         IN  IF made = <<>> THEN CreateGroups(type, groups, k + 1, st)
             ELSE CreateGroups(type, groups, k + 1,
                      [positions |-> [st.positions EXCEPT ![g.start] = made],
                       processed |-> st.processed \cup (g.start..g.end)])

HasBeam(n, text) == \E b \in 1..Len(n.beams) : n.beams[b] = text

RECURSIVE BeamScan(_, _, _, _)
\* lines 691-716: the loop from note i on, skipping the indices processed
BeamScan(i, current_beam, groups, processed) ==
    IF i > NumNotes THEN groups
    ELSE IF i \in processed \/ IsChord(i) THEN BeamScan(i + 1, current_beam, groups, processed)
    ELSE LET n == note_elems[i]
             opened == IF HasBeam(n, "begin") THEN <<i>> ELSE current_beam
             closes == HasBeam(n, "end") /\ opened # <<>>
         IN  BeamScan(i + 1,
                      IF closes THEN <<>> ELSE opened,
                      IF closes THEN Append(groups, [start |-> opened[1], end |-> i]) ELSE groups,
                      processed)

\* lines 739-756: what an unprocessed lead note i becomes
Leftover(i) ==
    IF LastFollower(i, NumNotes) > i
    THEN ImportChord(i, LastFollower(i, NumNotes))
    ELSE ImportNote(i)

RECURSIVE SortedResult_Descending(_, _)
SortedResult_Descending(positions, i) ==
    IF i > NumNotes THEN <<>>
    ELSE SortedResult_Descending(positions, i + 1) \o positions[i]

RECURSIVE SortedResult(_, _)
\* lines 760-765: the values of element_positions by ascending key
SortedResult(positions, i) ==
    IF i > NumNotes THEN <<>>
    ELSE positions[i] \o SortedResult(positions, i + 1)

\* identify_groups_in_measure, lines 582-765
IdentifyGroupsInMeasure ==
    /\ comp = "groups"
    /\ pc = "identify"
    /\ LET tg == TupletScan(1, <<>>, <<>>)
           t == CreateGroups("Tuplet", tg, 1,
                             [positions |-> NoPositions, processed |-> ChordIndices])
           bg == BeamScan(1, <<>>, <<>>, t.processed)
           b == CreateGroups("BeamedGroup", bg, 1, t)
           final == [i \in 1..NumNotes |->
                        IF i \in b.processed THEN b.positions[i] ELSE Leftover(i)]
       IN  /\ tuplet_groups' = tg
           /\ beam_groups' = bg
           /\ processed_indices' = [tuplet |-> t.processed, beam |-> b.processed,
                                    leftover |-> 1..NumNotes]
           /\ note_positions' = final
           /\ all_elements' = SortedResult(final, 1)
    /\ pc' = "partition"
    /\ UNCHANGED <<comp, note_elems, voice_elements, contents,
                   trackVars, partVars, scoreVars, chordVars, textVars, directionVars, attrVars, durationVars>>

(***************************************************************************)
(* ScoreImporter._import_measure_contents, lines 460-483                   *)
(***************************************************************************)
\* line 466: getattr(element, 'voice', 1) or 1
VoiceKey(element) ==
    IF element.voice = <<>> \/ element.voice[1] = 0 THEN 1 ELSE element.voice[1]

AppendToVoice_Prepend(elements, element) == <<element>> \o elements

\* line 471: voice_elements[voice].append(element)
AppendToVoice(elements, element) == Append(elements, element)

HasVoice(ve, voice) == \E k \in 1..Len(ve) : ve[k].voice = voice

\* lines 469-471 for one element
AddElement(ve, element) ==
    LET voice == VoiceKey(element)
    IN  IF HasVoice(ve, voice)
        THEN [k \in 1..Len(ve) |->
                 IF ve[k].voice = voice
                 THEN [ve[k] EXCEPT !.elements = AppendToVoice(@, element)]
                 ELSE ve[k]]
        ELSE Append(ve, [voice |-> voice, elements |-> AppendToVoice(<<>>, element)])

RECURSIVE GroupByVoice(_, _, _)
\* lines 464-471: the loop over all_elements from element k on
GroupByVoice(elements, k, ve) ==
    IF k > Len(elements) THEN ve
    ELSE GroupByVoice(elements, k + 1, AddElement(ve, elements[k]))

RECURSIVE SortByVoice(_)
\* line 481: sorted(voice_elements.keys()), as the entries in that order
SortByVoice(ve) ==
    IF ve = <<>> THEN <<>>
    ELSE LET m == CHOOSE k \in 1..Len(ve) : \A j \in 1..Len(ve) : ve[k].voice <= ve[j].voice
             rest == [j \in 1..(Len(ve) - 1) |-> IF j < m THEN ve[j] ELSE ve[j + 1]]
         IN  <<ve[m]>> \o SortByVoice(rest)

ShapeContents_AlwaysNested(ve) ==
    [shape |-> "lists", elements |-> <<>>, lists |-> SortByVoice(ve)]

\* lines 474-483: a flat list for one voice, else one list per voice
ShapeContents(ve) ==
    IF Len(ve) = 1
    THEN [shape |-> "flat", elements |-> ve[1].elements, lists |-> <<>>]
    ELSE [shape |-> "lists", elements |-> <<>>, lists |-> SortByVoice(ve)]

PartitionVoices ==
    /\ comp = "groups"
    /\ pc = "partition"
    /\ voice_elements' = GroupByVoice(all_elements, 1, <<>>)
    /\ contents' = ShapeContents(GroupByVoice(all_elements, 1, <<>>))
    /\ pc' = "done"
    /\ UNCHANGED <<comp, note_elems, tuplet_groups, beam_groups, processed_indices,
                   note_positions, all_elements, trackVars, partVars, scoreVars,
                   chordVars, textVars, directionVars, attrVars, durationVars>>

InitGroups ==
    /\ comp = "groups"
    /\ pc = "identify"
    \* up to MaxNotes notes, all of one family, or the measure of the test
    /\ \/ \E n \in 0..MaxNotes : \E family \in NoteFamilies :
             note_elems \in [1..n -> family]
       \/ note_elems = OrderDocument
    /\ tuplet_groups = <<>>
    /\ beam_groups = <<>>
    /\ processed_indices = [tuplet |-> {}, beam |-> {}, leftover |-> {}]
    /\ note_positions = <<>>
    /\ all_elements = <<>>
    /\ voice_elements = <<>>
    /\ contents = NoContents
    /\ TrackIdle
    /\ PartIdle
    /\ ScoreIdle
    /\ ChordIdle
    /\ TextIdle
    /\ DirectionIdle
    /\ AttrIdle
    /\ DurationIdle

NextGroups ==
    \/ IdentifyGroupsInMeasure
    \/ PartitionVoices

SpecGroups == InitGroups /\ [][NextGroups]_vars

(***************************************************************************)
(* MusicalElementsImporter.import_chord: the notations of a chord.  A note *)
(* handed to import_chord is [pitched, notations]: whether import_pitch    *)
(* gives a Pitch for it, and the glissando and slide elements of its       *)
(* notations element in document order, each [tag, type, number] with      *)
(* number <<>> when the attribute is absent.                               *)
(***************************************************************************)
GlissElem(tag, type, number) == [tag |-> tag, type |-> type, number |-> number]

GlissElems ==
    { GlissElem("glissando", "start", n) : n \in {<<>>, <<1>>, <<2>>, <<3>>} }
    \cup { GlissElem("glissando", "stop", n) : n \in {<<1>>, <<2>>} }
    \cup { GlissElem("slide", "start", <<2>>), GlissElem("slide", "stop", <<1>>) }

ChordNote(pitched, notations) == [pitched |-> pitched, notations |-> notations]

\* line 153: gliss.get("number", "1")
GlissNumber(elem) == IF elem.number = <<>> THEN 1 ELSE elem.number[1]

Notation(cls, numbers) == [cls |-> cls, numbers |-> numbers]

RECURSIVE GlissNotations(_)
\* lines 151-158: the loop over the elements
GlissNotations(elems) ==
    IF elems = <<>> THEN <<>>
    ELSE (IF elems[1].type = "start"
          THEN <<Notation("StartGliss", <<GlissNumber(elems[1])>>)>>
          ELSE IF elems[1].type = "stop"
          THEN <<Notation("StopGliss", <<GlissNumber(elems[1])>>)>>
          ELSE <<>>)
         \o GlissNotations(Tail(elems))

\* import_notations, lines 128-162: glissando_elems + slide_elems
ImportNotations(note) ==
    LET IsGlissando(elem) == elem.tag = "glissando"
        IsSlide(elem) == elem.tag = "slide"
    IN  GlissNotations(SelectSeq(note.notations, IsGlissando)
                       \o SelectSeq(note.notations, IsSlide))

RECURSIVE AllNotations(_)
\* lines 374-377
AllNotations(notes) ==
    IF notes = <<>> THEN <<>>
    ELSE ImportNotations(notes[1]) \o AllNotations(Tail(notes))

RECURSIVE MultiGlissKeys(_, _, _)
\* lines 380-387: the keys of multi_gliss_start (cls "StartGliss") or of
\* multi_gliss_stop (cls "StopGliss"), in insertion order
MultiGlissKeys(notations, cls, keys) ==
    IF notations = <<>> THEN keys
    ELSE LET number == notations[1].numbers[1]
             seen == \E k \in 1..Len(keys) : keys[k] = number
         IN  MultiGlissKeys(Tail(notations), cls,
                 IF notations[1].cls = cls /\ ~seen THEN Append(keys, number) ELSE keys)

NeedsMultiGliss_FromThree(keys) == Len(keys) > 2

\* lines 391 and 396
NeedsMultiGliss(keys) == Len(keys) > 1

\* lines 391-399 for one of the two dicts
Consolidate(keys, multi, plain) ==
    IF NeedsMultiGliss(keys) THEN <<Notation(multi, keys)>>
    ELSE IF Len(keys) = 1 THEN <<Notation(plain, keys)>>
    ELSE <<>>

\* lines 402-404
OtherNotations(notations) ==
    LET IsOther(notation) == notation.cls \notin {"StartGliss", "StopGliss"}
    IN  SelectSeq(notations, IsOther)

\* lines 373-404
ChordNotations(notes) ==
    Consolidate(MultiGlissKeys(AllNotations(notes), "StartGliss", <<>>),
                "StartMultiGliss", "StartGliss")
    \o Consolidate(MultiGlissKeys(AllNotations(notes), "StopGliss", <<>>),
                   "StopMultiGliss", "StopGliss")
    \o OtherNotations(AllNotations(notes))

\* import_chord, lines 331-472
ImportChordNotations ==
    /\ comp = "chord"
    /\ pc = "import_chord"
    /\ imported_chord' = IF \A k \in 1..Len(chord_notes) : ~chord_notes[k].pitched
                THEN <<>>
                ELSE <<[notations |-> ChordNotations(chord_notes)]>>
    /\ pc' = "done"
    /\ UNCHANGED <<comp, chord_notes, trackVars, partVars, scoreVars, groupVars,
                   textVars, directionVars, attrVars, durationVars>>

InitChord ==
    /\ comp = "chord"
    /\ pc = "import_chord"
    \* a lead note and one chord-flagged follower, with at most MaxGliss
    \* glissando and slide elements in all
    /\ \E total \in 0..MaxGliss : \E a \in 0..total :
          \E p1 \in BOOLEAN, p2 \in BOOLEAN :
             \E n1 \in [1..a -> GlissElems], n2 \in [1..(total - a) -> GlissElems] :
                chord_notes = <<ChordNote(p1, n1), ChordNote(p2, n2)>>
    /\ imported_chord = <<>>
    /\ TrackIdle
    /\ PartIdle
    /\ ScoreIdle
    /\ GroupIdle
    /\ TextIdle
    /\ DirectionIdle
    /\ AttrIdle
    /\ DurationIdle

NextChord == ImportChordNotations

SpecChord == InitChord /\ [][NextChord]_vars

(***************************************************************************)
(* Number texts.  During an import the code hands these texts to float():  *)
(* a note's, forward's or backup's duration and a direction's or harmony's *)
(* offset (ScoreImporter._import_measure), a pitch's alter                 *)
(* (MusicalElementsImporter.import_pitch) and a metronome's per-minute     *)
(* (DirectionsImporter.import_direction).  number_texts lists the texts of *)
(* a document in the order the import meets them; nothing else of the      *)
(* document is kept here.                                                  *)
(***************************************************************************)
NumberSites == {"duration", "alter", "per-minute", "offset"}

NumberText(site, text) == [site |-> site, text |-> text]

NumberTexts == { NumberText(site, text) : site \in NumberSites, text \in {Absent, Bad, Num(2)} }

Conversion(site, text, effect) == [site |-> site, text |-> text, effect |-> effect]

\* score_importer.py lines 348-357: "if duration_text:" / try float / except
ConvertedDuration(text) ==
    IF text.k = "absent" THEN "absent"
    ELSE IF IsNumeric(text) THEN "value"
    ELSE "skipped"

\* musical_elements.py, lines 53-54: float(alter_text) outside any try
ConvertedAlter(text) ==
    IF text.k = "absent" THEN "default"
    ELSE IF IsNumeric(text) THEN "value"
    ELSE "ValueError"

\* directions_notations.py, lines 234-273: None is returned for the direction
ConvertedPerMinute(text) ==
    IF text.k = "absent" THEN "absent"
    ELSE IF IsNumeric(text) THEN "value"
    ELSE "skipped"

\* score_importer.py lines 392-401
ConvertedOffset(text) ==
    IF text.k = "absent" THEN "absent"
    ELSE IF IsNumeric(text) THEN "value"
    ELSE "skipped"

\* the import meets the next text, of the given site
ConvertNext(site, effect) ==
    /\ comp = "texts"
    /\ pc = "convert"
    /\ number_texts # <<>>
    /\ Head(number_texts).site = site
    /\ conversions' = Append(conversions, Conversion(site, Head(number_texts).text, effect))
    /\ number_texts' = Tail(number_texts)
    \* no caller of import_pitch catches the ValueError: import_score raises
    /\ pc' = IF effect = "ValueError" THEN "raised" ELSE pc
    /\ UNCHANGED <<comp, trackVars, partVars, scoreVars, groupVars, chordVars,
                   directionVars, attrVars, durationVars>>

ConvertDuration ==
    /\ number_texts # <<>>
    /\ ConvertNext("duration", ConvertedDuration(Head(number_texts).text))

ConvertAlter ==
    /\ number_texts # <<>>
    /\ ConvertNext("alter", ConvertedAlter(Head(number_texts).text))

ConvertPerMinute ==
    /\ number_texts # <<>>
    /\ ConvertNext("per-minute", ConvertedPerMinute(Head(number_texts).text))

ConvertOffset ==
    /\ number_texts # <<>>
    /\ ConvertNext("offset", ConvertedOffset(Head(number_texts).text))

\* every text was converted: import_score returns the Score
ReturnScore ==
    /\ comp = "texts"
    /\ pc = "convert"
    /\ number_texts = <<>>
    /\ pc' = "returned"
    /\ UNCHANGED <<comp, trackVars, partVars, scoreVars, groupVars, chordVars,
                   textVars, directionVars, attrVars, durationVars>>

InitTexts ==
    /\ comp = "texts"
    /\ pc = "convert"
    /\ \E n \in 0..MaxTexts : number_texts \in [1..n -> NumberTexts]
    /\ conversions = <<>>
    /\ TrackIdle
    /\ PartIdle
    /\ ScoreIdle
    /\ GroupIdle
    /\ ChordIdle
    /\ DirectionIdle
    /\ AttrIdle
    /\ DurationIdle

NextTexts ==
    \/ ConvertDuration
    \/ ConvertAlter
    \/ ConvertPerMinute
    \/ ConvertOffset
    \/ ReturnScore

SpecTexts == InitTexts /\ [][NextTexts]_vars

(***************************************************************************)
(* DirectionsImporter.import_direction.  A direction is the sequence of    *)
(* its direction-type elements, a direction-type the sequence of its       *)
(* children in document order, a child [tag, type]: type is the type       *)
(* attribute of a dashes, wedge, pedal or bracket, "f" or "unrecognized"   *)
(* for a dynamics (it holds a standard mark or nothing the code knows),    *)
(* "valid" or "invalid" for a metronome (per-minute and beat-unit present  *)
(* and per-minute numeric, or not), "text" for a words with text.          *)
(***************************************************************************)
Shape(tag, type) == [tag |-> tag, type |-> type]

Shapes ==
    { Shape("dashes", t) : t \in {"start", "stop", "continue"} }
    \cup { Shape("wedge", "crescendo"), Shape("pedal", "start") }
    \cup { Shape("dynamics", t) : t \in {"f", "unrecognized"} }
    \cup { Shape("metronome", t) : t \in {"valid", "invalid"} }
    \cup { Shape("words", "text") }
    \cup { Shape("bracket", t) : t \in {"start", "stop"} }

RECURSIVE SplitShapes(_, _, _, _)
\* the direction-type elements that hold shapes i.. of the list: a new
\* element begins at every index whose break flag is set
SplitShapes(shapes, breaks, i, dts) ==
    IF i > Len(shapes) THEN dts
    ELSE IF breaks[i] \/ dts = <<>>
         THEN SplitShapes(shapes, breaks, i + 1, Append(dts, <<shapes[i]>>))
         ELSE SplitShapes(shapes, breaks, i + 1,
                          [dts EXCEPT ![Len(dts)] = Append(@, shapes[i])])

\* find_element(direction_type_elem, tag): <<>> for None, else <<child>>
FindShape(dt, tag) ==
    LET HasTag(child) == child.tag = tag
        found == SelectSeq(dt, HasTag)
    IN  IF found = <<>> THEN <<>> ELSE <<found[1]>>

\* an object import_direction returns; text is <<>> for text=None, else
\* <<annotation>> for the TextAnnotation handed in as text
DirectionObject(cls, text) == [cls |-> cls, text |-> text]

TextAnnotation == DirectionObject("TextAnnotation", <<>>)

Returned(value, ta) == [returns |-> TRUE, value |-> value, text_annotation |-> ta]

Continued(ta) == [returns |-> FALSE, value |-> <<>>, text_annotation |-> ta]

\* lines 307-362: the words and the bracket checks
WordsThenBracket(dt, ta) ==
    IF FindShape(dt, "words") # <<>> THEN Continued(<<TextAnnotation>>)
    ELSE IF FindShape(dt, "bracket") = <<>> THEN Continued(ta)
    ELSE IF FindShape(dt, "bracket")[1].type = "start"
         THEN Returned(<<DirectionObject("StartBracket", ta)>>, ta)
    ELSE IF FindShape(dt, "bracket")[1].type = "stop"
         THEN Returned(<<DirectionObject("StopBracket", ta)>>, ta)
    ELSE Continued(ta)

\* lines 275-362: the checks that follow the metronome check
AfterMetronome(dt, ta) == WordsThenBracket(dt, ta)

\* lines 206-273: the dynamics and the metronome checks
DynamicsThenMetronome(dt, ta) ==
    IF FindShape(dt, "dynamics") # <<>>
    THEN IF FindShape(dt, "dynamics")[1].type = "unrecognized"
         THEN Returned(<<>>, ta)
         ELSE Returned(<<DirectionObject("Dynamic", <<>>)>>, ta)
    ELSE IF FindShape(dt, "metronome") # <<>>
    THEN IF FindShape(dt, "metronome")[1].type = "valid"
         THEN Returned(<<DirectionObject("MetronomeMark", <<>>)>>, ta)
         ELSE Returned(<<>>, ta)
    ELSE AfterMetronome(dt, ta)

\* lines 127-204: the wedge and the pedal checks
WedgeThenPedal(dt, ta) ==
    IF /\ FindShape(dt, "wedge") # <<>>
       /\ FindShape(dt, "wedge")[1].type \in {"crescendo", "diminuendo"}
    THEN Returned(<<DirectionObject("StartHairpin", <<>>)>>, ta)
    ELSE IF FindShape(dt, "wedge") # <<>> /\ FindShape(dt, "wedge")[1].type = "stop"
    THEN Returned(<<DirectionObject("StopHairpin", <<>>)>>, ta)
    ELSE IF FindShape(dt, "pedal") # <<>> /\ FindShape(dt, "pedal")[1].type = "start"
    THEN Returned(<<DirectionObject("StartPedal", <<>>)>>, ta)
    ELSE IF FindShape(dt, "pedal") # <<>> /\ FindShape(dt, "pedal")[1].type = "stop"
    THEN Returned(<<DirectionObject("StopPedal", <<>>)>>, ta)
    ELSE IF FindShape(dt, "pedal") # <<>> /\ FindShape(dt, "pedal")[1].type = "change"
    THEN Returned(<<DirectionObject("ChangePedal", <<>>)>>, ta)
    ELSE DynamicsThenMetronome(dt, ta)

\* lines 81-362: one pass of the loop body over direction_type_elem dt
ExamineShapes(dt, ta) ==
    LET dashes == FindShape(dt, "dashes")
        \* lines 89-98: words beside the dashes replace text_annotation
        with_words == IF dashes # <<>> /\ FindShape(dt, "words") # <<>>
                      THEN <<TextAnnotation>> ELSE ta
    IN  IF dashes # <<>> /\ dashes[1].type = "start"
        THEN Returned(<<DirectionObject("StartDashes", with_words)>>, with_words)
        ELSE IF dashes # <<>> /\ dashes[1].type = "stop"
        THEN Returned(<<DirectionObject("StopDashes", with_words)>>, with_words)
        ELSE WedgeThenPedal(dt, with_words)

\* one iteration of "for direction_type_elem in direction_type_elements"
ExamineDirectionType ==
    /\ comp = "direction"
    /\ pc = "loop"
    /\ dt_index < Len(direction_types)
    /\ LET r == ExamineShapes(direction_types[dt_index + 1], text_annotation)
       IN  /\ text_annotation' = r.text_annotation
           /\ direction' = r.value
           /\ pc' = IF r.returns THEN "returned" ELSE pc
    /\ dt_index' = dt_index + 1
    /\ UNCHANGED <<comp, direction_types, trackVars, partVars, scoreVars, groupVars,
                   chordVars, textVars, attrVars, durationVars>>

\* lines 364-436: after the loop (the direction holds no harmony element)
ReturnAfterLoop ==
    /\ comp = "direction"
    /\ pc = "loop"
    /\ dt_index = Len(direction_types)
    /\ direction' = text_annotation
    /\ pc' = "returned"
    /\ UNCHANGED <<comp, direction_types, dt_index, text_annotation, trackVars,
                   partVars, scoreVars, groupVars, chordVars, textVars, attrVars, durationVars>>

InitDirection ==
    /\ comp = "direction"
    /\ pc = "loop"
    \* up to MaxShapes children, spread over direction-type elements
    /\ \E n \in 0..MaxShapes :
          \E shapes \in [1..n -> Shapes], breaks \in [1..n -> BOOLEAN] :
             /\ n > 0 => breaks[1]
             /\ direction_types = SplitShapes(shapes, breaks, 1, <<>>)
    /\ dt_index = 0
    /\ text_annotation = <<>>
    /\ direction = <<>>
    /\ TrackIdle
    /\ PartIdle
    /\ ScoreIdle
    /\ GroupIdle
    /\ ChordIdle
    /\ TextIdle
    /\ AttrIdle
    /\ DurationIdle

NextDirection ==
    \/ ExamineDirectionType
    \/ ReturnAfterLoop

SpecDirection == InitDirection /\ [][NextDirection]_vars

(***************************************************************************)
(* Re-export.  The exporter is not part of the importer; it is taken to    *)
(* write the Score as it stands: one note element for every Note and Rest  *)
(* and for every pitch of a Chord, wherever the node sits.                 *)
(***************************************************************************)
RECURSIVE ExportedNotes(_)
\* the number of note elements written for a list of nodes
ExportedNotes(nodes) ==
    IF nodes = <<>> THEN 0
    ELSE (CASE nodes[1].type \in {"Note", "Rest"} -> 1
            [] nodes[1].type = "Chord" -> Len(nodes[1].pitches)
            [] OTHER -> ExportedNotes(nodes[1].contents))
         + ExportedNotes(Tail(nodes))

(***************************************************************************)
(* ScoreImporter._import_measure: the scalar attributes of the Measure,    *)
(* lines 240-327 and 433-444.  A measure element here is                   *)
(*   number    its number attribute                                        *)
(*   implicit  its implicit attribute is "yes"                             *)
(*   time      <<>> or <<beats, beat-type>> of attributes/time             *)
(*   fifths    <<>> or <<fifths>> of attributes/key                        *)
(*   clef      <<>> or <<sign>> of attributes/clef                         *)
(*   barline   <<>> or <<bar-style>> of its barline child                  *)
(***************************************************************************)
MeasureNumbers == {"0", "1", "12", "X1"}
BarStyles == {"light-heavy", "light-light"}

MeasureXml(number, implicit, time, fifths, clef, barline) ==
    [number |-> number, implicit |-> implicit, time |-> time, fifths |-> fifths,
     clef |-> clef, barline |-> barline]

\* line 440 with line 245: barline is None and is assigned nowhere else
MeasureBarline(elem) == <<>>

\* line 442: int(measure_number) if measure_number.isdigit() else the text
MeasureNumber(elem) ==
    CASE elem.number = "0" -> <<"int", "0">>
      [] elem.number = "1" -> <<"int", "1">>
      [] elem.number = "12" -> <<"int", "12">>
      [] OTHER -> <<"str", elem.number>>

\* lines 433-444: the Measure, without contents, directions and divisions
ImportedMeasure(elem) ==
    [time_signature |-> elem.time,
     key |-> elem.fifths,
     clef |-> elem.clef,
     barline |-> MeasureBarline(elem),
     number |-> MeasureNumber(elem)]

\* _import_measure, lines 240-327 and 433-446
ImportMeasureAttributes ==
    /\ comp = "attributes"
    /\ pc = "import"
    /\ measure' = <<ImportedMeasure(measure_elem)>>
    /\ pc' = "done"
    /\ UNCHANGED <<comp, measure_elem, trackVars, partVars, scoreVars, groupVars,
                   chordVars, textVars, directionVars, durationVars>>

InitAttributes ==
    /\ comp = "attributes"
    /\ pc = "import"
    /\ \E number \in MeasureNumbers, implicit \in BOOLEAN,
          time \in {<<>>, <<4, 4>>, <<3, 4>>}, fifths \in {<<>>, <<0>>, <<2>>},
          clef \in {<<>>, <<"G">>, <<"F">>},
          barline \in {<<>>} \cup { <<b>> : b \in BarStyles } :
             measure_elem = MeasureXml(number, implicit, time, fifths, clef, barline)
    /\ measure = <<>>
    /\ TrackIdle
    /\ PartIdle
    /\ ScoreIdle
    /\ GroupIdle
    /\ ChordIdle
    /\ TextIdle
    /\ DirectionIdle
    /\ DurationIdle

NextAttributes == ImportMeasureAttributes

SpecAttributes == InitAttributes /\ [][NextAttributes]_vars

(***************************************************************************)
(* MusicalElementsImporter.import_duration, lines 59-87.  The note here is *)
(*   finder  the find_element the caller passes: "first" is the            *)
(*           importer's _find_element (base_importer.py, lines 129-150:    *)
(*           the first match or None), "list" the helper of                *)
(*           test_import_duration (a list when there are several matches)  *)
(*   type    <<>> or <<text of the type element>>                          *)
(*   dots    the number of dot children                                    *)
(*   tm      <<>> or <<actual-notes, normal-notes>>                        *)
(***************************************************************************)
NoteTypes == {"quarter", "half", "eighth"}

DottedNote(finder, type, dots, tm) ==
    [finder |-> finder, type |-> type, dots |-> dots, tm |-> tm]

\* what find_element(note_elem, "dot") returns for a note with n dots
FindDots(finder, n) ==
    IF n = 0 THEN [k |-> "None", n |-> 0]
    ELSE IF finder = "list" /\ n > 1 THEN [k |-> "list", n |-> n]
    ELSE [k |-> "Element", n |-> 1]

\* line 76: len(dot_elements) for a list, else 1 for an element, 0 for None
NumDots(dot_elements) ==
    IF dot_elements.k = "list" THEN dot_elements.n
    ELSE IF dot_elements.k # "None" THEN 1 ELSE 0

\* lines 72-87: the Duration
ImportedDuration(note) ==
    [note_type |-> IF note.type = <<>> THEN "quarter" ELSE note.type[1],
     num_dots |-> NumDots(FindDots(note.finder, note.dots)),
     tuplet_ratio |-> ImportDurationRatio(note)]

ImportDuration ==
    /\ comp = "duration"
    /\ pc = "import"
    /\ imported_duration' = <<ImportedDuration(dotted_note)>>
    /\ pc' = "done"
    /\ UNCHANGED <<comp, dotted_note, trackVars, partVars, scoreVars, groupVars,
                   chordVars, textVars, directionVars, attrVars>>

InitDuration ==
    /\ comp = "duration"
    /\ pc = "import"
    /\ \E finder \in {"first", "list"}, type \in {<<>>} \cup { <<t>> : t \in NoteTypes },
          dots \in 0..MaxDots, tm \in {<<>>, <<3, 2>>, <<2, 2>>, <<5, 4>>} :
             dotted_note = DottedNote(finder, type, dots, tm)
    /\ imported_duration = <<>>
    /\ TrackIdle
    /\ PartIdle
    /\ ScoreIdle
    /\ GroupIdle
    /\ ChordIdle
    /\ TextIdle
    /\ DirectionIdle
    /\ AttrIdle

NextDuration == ImportDuration

SpecDuration == InitDuration /\ [][NextDuration]_vars

(***************************************************************************)
(*                              The claims                                 *)
(***************************************************************************)

\* the cursor before child k of the measure
CursorBefore(k) == IF k = 1 THEN 0 ELSE cursors[k - 1]

\* every regular note and forward read so far has a duration >= 0
NonNegativeDurations ==
    \A k \in 1..Len(children) :
        (children[k].tag \in {"note", "forward"} /\ IsNumeric(children[k].duration))
            => children[k].duration.v >= 0

(* C3: in the position pass the cursor is never below 0.  When every note  *)
(* and forward has a non-negative duration, the cursor is >= 0 after each  *)
(* child, and after a backup whose duration exceeds the cursor it is       *)
(* exactly 0.                                                              *)
C3_CursorNeverNegative ==
    (comp = "measure" /\ NonNegativeDurations) =>
        /\ current_position >= 0
        /\ \A k \in 1..Len(cursors) :
              /\ cursors[k] >= 0
              /\ (/\ children[k].tag = "backup"
                  /\ IsNumeric(children[k].duration)
                  /\ children[k].duration.v > CursorBefore(k))
                    => cursors[k] = 0

\* a backup of 8 ticks read at cursor 4 has left the cursor at 0
C3_Witness ==
    /\ comp = "measure"
    /\ NonNegativeDurations
    /\ \E k \in 1..Len(cursors) :
          /\ children[k].tag = "backup"
          /\ children[k].duration = Num(8)
          /\ CursorBefore(k) = 4
          /\ cursors[k] = 0
          /\ current_position = 0

\* the offset in ticks that child c adds to its recorded displacement
OffsetTicks(c) == IF IsNumeric(c.offset) THEN c.offset.v ELSE 0

\* a quarter-note value equal to n / d
QuartersEqual(q, n, d) == q.num * d = n * q.den

(* C4: the displacement paired with each direction or harmony of the       *)
(* directions list is the cursor at that element's place in the child      *)
(* sequence plus offset/divisions when it has a numeric offset; with       *)
(* divisions 4, a direction after one quarter note (4 ticks) with offset 2 *)
(* has displacement 1.5 = 3/2.                                             *)
C4_DisplacementIsCursorPlusOffset ==
    (comp = "measure" /\ pc = "done") =>
        /\ \A j \in 1..Len(directions_with_displacements) :
              LET e == directions_with_displacements[j]
              IN  /\ children[e.elem].tag \in {"direction", "harmony"}
                  /\ e.displacement =
                        Quarters(CursorBefore(e.elem) + OffsetTicks(children[e.elem]))
        /\ (/\ divisions = 4
            /\ children = <<Child("note", FALSE, FALSE, Num(4), Absent, FALSE),
                            Child("direction", FALSE, FALSE, Absent, Num(2), TRUE)>>)
              => /\ Len(directions_with_displacements) = 1
                 /\ directions_with_displacements[1].elem = 2
                 /\ QuartersEqual(directions_with_displacements[1].displacement, 3, 2)

\* the example measure has been imported and its direction sits at 3/2
C4_Witness ==
    /\ comp = "measure"
    /\ pc = "done"
    /\ divisions = 4
    /\ children = <<Child("note", FALSE, FALSE, Num(4), Absent, FALSE),
                    Child("direction", FALSE, FALSE, Absent, Num(2), TRUE)>>
    /\ Len(directions_with_displacements) = 1
    /\ QuartersEqual(directions_with_displacements[1].displacement, 3, 2)

(* C7: import_score returns a Score only for a score-partwise root with a  *)
(* part-list; a score-timewise root raises NotImplementedError, another    *)
(* root raises the unknown-score-type ValueError, a missing part-list      *)
(* raises ValueError, and none of these builds any Score content.          *)
C7_ScoreOnlyForPartwiseWithPartList ==
    (comp = "score") =>
        /\ (outcome = "Score") => (root = "score-partwise" /\ has_part_list)
        /\ (pc \in {"returned", "raised"} /\ root = "score-timewise")
              => outcome = "NotImplementedError"
        /\ (pc \in {"returned", "raised"} /\ root \notin {"score-partwise", "score-timewise"})
              => outcome = "ValueError_unknown_score_type"
        /\ (pc \in {"returned", "raised"} /\ root = "score-partwise" /\ ~has_part_list)
              => outcome = "ValueError_required_element"
        /\ (root # "score-partwise" \/ ~has_part_list)
              => (pc \notin {"part_list", "returned"} /\ parts_and_groups = <<>>)

\* a partwise document without part-list has raised
C7_Witness ==
    /\ comp = "score"
    /\ pc = "raised"
    /\ root = "score-partwise"
    /\ ~has_part_list
    /\ outcome = "ValueError_required_element"

\* measure k of the part gives a numeric divisions value of its own
SetsDivisions(k) ==
    measure_elems[k].has_attributes /\ IsNumeric(measure_elems[k].divisions_text)

\* the measures before k (k included) that give a numeric divisions value
SettersUpTo(k) == { j \in 1..k : SetsDivisions(j) }

LastOf(S) == CHOOSE j \in S : \A i \in S : i <= j

\* C8 as stated: own value, else the value most recently set, else 1
ClaimedDivisions(k) ==
    IF SettersUpTo(k) = {} THEN 1
    ELSE measure_elems[LastOf(SettersUpTo(k))].divisions_text.v

\* C8 as amended: an inherited 0 counts as not set
AmendedDivisions(k) ==
    IF SetsDivisions(k) THEN measure_elems[k].divisions_text.v
    ELSE IF SettersUpTo(k) = {} THEN 1
    ELSE IF measure_elems[LastOf(SettersUpTo(k))].divisions_text.v = 0 THEN 1
    ELSE measure_elems[LastOf(SettersUpTo(k))].divisions_text.v

(* C8 (as stated): every measure of a part uses its own numeric            *)
(* attributes/divisions value, otherwise the value most recently set by    *)
(* an earlier measure, otherwise 1.                                        *)
C8_DivisionsAsClaimed ==
    (comp = "part") =>
        \A k \in 1..Len(measures) : measures[k].original_divisions = ClaimedDivisions(k)

(* C8 (amended): every measure of a part uses its own numeric              *)
(* attributes/divisions value, otherwise the value most recently set by    *)
(* an earlier measure when that value is not 0, otherwise 1; the value     *)
(* depends on no later measure.                                            *)
C8_DivisionsInherited ==
    (comp = "part") =>
        \A k \in 1..Len(measures) : measures[k].original_divisions = AmendedDivisions(k)

\* a measure without a value of its own has used the 4 set two measures before
C8_Witness ==
    /\ comp = "part"
    /\ Len(measures) = 3
    /\ measure_elems[1].divisions_text = Num(4)
    /\ ~SetsDivisions(2)
    /\ ~SetsDivisions(3)
    /\ measures[3].original_divisions = 4

(* C9: every displacement paired with a Direction or Harmony in the        *)
(* measure's directions list is non-negative, also for negative offsets.   *)
C9_DisplacementNonNegative ==
    (comp = "measure" /\ pc = "done") =>
        \A j \in 1..Len(directions_with_displacements) :
            directions_with_displacements[j].displacement.num >= 0

(***************************************************************************)
(* Claims about the grouping of a measure's notes                          *)
(***************************************************************************)
\* the voice number of an element: an absent voice counts as 1
VoiceNumberOf(element) == IF element.voice = <<>> THEN 1 ELSE element.voice[1]

VoiceNumbers == { VoiceNumberOf(all_elements[k]) : k \in 1..Len(all_elements) }

ElementsOfVoice(v) ==
    LET InVoice(element) == VoiceNumberOf(element) = v
    IN  SelectSeq(all_elements, InVoice)

\* C1: _import_measure_contents returns the flat ordered list when exactly
\* one distinct voice number occurs among the grouped elements (never a
\* singleton outer list), and otherwise exactly N per-voice lists for N > 1
\* distinct voice numbers, ordered by ascending voice number.
C1_VoiceShape ==
    (comp = "groups" /\ pc = "done") =>
        /\ Cardinality(VoiceNumbers) = 1 =>
              /\ contents.shape = "flat"
              /\ contents.elements = all_elements
        /\ Cardinality(VoiceNumbers) > 1 =>
              /\ contents.shape = "lists"
              /\ Len(contents.lists) = Cardinality(VoiceNumbers)
              /\ \A k \in 1..Len(contents.lists) :
                    /\ contents.lists[k].voice \in VoiceNumbers
                    /\ contents.lists[k].elements # <<>>
              /\ \A k \in 1..(Len(contents.lists) - 1) :
                    contents.lists[k].voice < contents.lists[k + 1].voice

\* three voices, met in the document in an order that is not ascending
C1_Witness ==
    /\ comp = "groups"
    /\ pc = "done"
    /\ Cardinality(VoiceNumbers) = 3
    /\ VoiceNumberOf(all_elements[1]) = 3
    /\ Len(contents.lists) = 3

\* C2: each per-voice list contains exactly the elements whose voice equals
\* that list's voice number (an absent voice counts as 1), in the same
\* relative order as in the document, and no element is placed in another
\* voice's list.
C2_VoiceListsHoldTheirVoice ==
    (comp = "groups" /\ pc = "done") =>
        /\ contents.shape = "lists" =>
              \A k \in 1..Len(contents.lists) :
                 /\ contents.lists[k].elements = ElementsOfVoice(contents.lists[k].voice)
                 /\ \A j \in 1..(Len(contents.lists[k].elements) - 1) :
                       contents.lists[k].elements[j].idx
                           < contents.lists[k].elements[j + 1].idx
        /\ contents.shape = "flat" =>
              \A v \in VoiceNumbers : contents.elements = ElementsOfVoice(v)

\* voices interleaved in the document: voice a, then voice b, then a again,
\* the first of them with an absent voice
C2_Witness ==
    /\ comp = "groups"
    /\ pc = "done"
    /\ Len(all_elements) = 3
    /\ all_elements[1].voice = <<>>
    /\ VoiceNumberOf(all_elements[1]) = VoiceNumberOf(all_elements[3])
    /\ VoiceNumberOf(all_elements[1]) # VoiceNumberOf(all_elements[2])
    /\ Len(contents.lists) = 2
    /\ Len(contents.lists[1].elements) = 2

LeadIndices == { i \in 1..NumNotes : ~IsChord(i) }

\* a span opened by a tuplet-start on lead note s and closed by the next
\* tuplet-stop, on lead note e
ExplicitSpan(s, e) ==
    /\ s \in LeadIndices
    /\ e \in LeadIndices
    /\ s < e
    /\ note_elems[s].tuplet = "start"
    /\ note_elems[e].tuplet = "stop"
    /\ \A i \in LeadIndices : (s < i /\ i < e) => note_elems[i].tuplet = "none"

\* the indices of the lead notes of s..e, ascending
LeadsIn(s, e) ==
    LET IsLead(i) == ~IsChord(i)
    IN  SelectSeq([k \in 1..(e - s + 1) |-> s + k - 1], IsLead)

ContentIndices(node) == [j \in 1..Len(node.contents) |-> node.contents[j].idx]

TupletsAt(s) ==
    { k \in 1..Len(all_elements) :
         all_elements[k].type = "Tuplet" /\ all_elements[k].idx = s }

ThreeEighths ==
    << NoteElem(FALSE, "pitch", <<1>>, <<3, 2>>, "start", <<>>),
       NoteElem(FALSE, "pitch", <<1>>, <<3, 2>>, "none", <<>>),
       NoteElem(FALSE, "pitch", <<1>>, <<3, 2>>, "stop", <<>>) >>

ThreeEighthsTuplet ==
    note_elems = ThreeEighths =>
        /\ Len(all_elements) = 1
        /\ all_elements[1].type = "Tuplet"
        /\ all_elements[1].ratio = <<3, 2>>
        /\ Len(all_elements[1].contents) = 3

\* C5 as stated: for every explicit span s..e one Tuplet is emitted at
\* position s, its ratio the (actual, normal) of note s, its contents the
\* lead notes of s..e in document order.
C5_ExplicitSpanAsClaimed ==
    (comp = "groups" /\ pc # "identify") =>
        /\ \A s, e \in 1..NumNotes :
              ExplicitSpan(s, e) =>
                 /\ Cardinality(TupletsAt(s)) = 1
                 /\ \A k \in TupletsAt(s) :
                       /\ all_elements[k].ratio = note_elems[s].tm
                       /\ ContentIndices(all_elements[k]) = LeadsIn(s, e)
        /\ ThreeEighthsTuplet

\* the chord-flagged notes that follow lead note i without a gap, up to e
FollowersWithin(i, e) ==
    { j \in (i + 1)..e : \A m \in (i + 1)..j : IsChord(m) }

\* lead note i gives a node inside the span that ends at e: alone it must
\* be a rest or have a pitch, with followers one of them must have a pitch
Yields(i, e) ==
    IF FollowersWithin(i, e) = {}
    THEN note_elems[i].kind # "none"
    ELSE \E j \in {i} \cup FollowersWithin(i, e) : note_elems[j].kind = "pitch"

ValidRatio(n) == n.tm # <<>> /\ n.tm[1] # n.tm[2]

YieldingLeadsIn(s, e) ==
    LET Gives(i) == Yields(i, e)
    IN  SelectSeq(LeadsIn(s, e), Gives)

\* C5 (amended): for an explicit span s..e whose opening note carries a
\* time-modification with actual # normal and in which some lead note gives
\* a node, one Tuplet is emitted at position s, its ratio the (actual,
\* normal) of note s, its contents the nodes of the lead notes of s..e that
\* give a node, in document order; the three eighth notes with ratio (3, 2)
\* give one Tuplet with ratio (3, 2) and 3 contents.
C5_ExplicitSpanTuplet ==
    (comp = "groups" /\ pc # "identify") =>
        /\ \A s, e \in 1..NumNotes :
              (/\ ExplicitSpan(s, e)
               /\ ValidRatio(note_elems[s])
               /\ YieldingLeadsIn(s, e) # <<>>) =>
                 /\ Cardinality(TupletsAt(s)) = 1
                 /\ \A k \in TupletsAt(s) :
                       /\ all_elements[k].ratio = note_elems[s].tm
                       /\ ContentIndices(all_elements[k]) = YieldingLeadsIn(s, e)
        /\ ThreeEighthsTuplet

\* an explicit span of three notes, the middle one a chord member, that has
\* given a Tuplet of two nodes
C5_Witness ==
    /\ comp = "groups"
    /\ pc = "done"
    /\ NumNotes = 3
    /\ ExplicitSpan(1, 3)
    /\ ValidRatio(note_elems[1])
    /\ IsChord(2)
    /\ TupletsAt(1) # {}
    /\ Len(all_elements[1].contents) = 2

CarriedNumbers(cls) ==
    LET IsCls(notation) == notation.cls = cls
        carried == SelectSeq(AllNotations(chord_notes), IsCls)
    IN  [k \in 1..Len(carried) |-> carried[k].numbers[1]]

FirstOccurrence(seq, x) == CHOOSE k \in 1..Len(seq) : seq[k] = x /\ \A j \in 1..(k - 1) : seq[j] # x

\* q lists the distinct members of seq, each once, by first occurrence
InFirstOccurrenceOrder(q, seq) ==
    /\ { q[k] : k \in 1..Len(q) } = { seq[k] : k \in 1..Len(seq) }
    /\ \A j, k \in 1..Len(q) :
          j < k => FirstOccurrence(seq, q[j]) < FirstOccurrence(seq, q[k])

NotationsOfClass(cls) ==
    { k \in 1..Len(imported_chord[1].notations) : imported_chord[1].notations[k].cls = cls }

Distinct(seq) == Cardinality({ seq[k] : k \in 1..Len(seq) })

ConsolidatedAsClaimed(plain, multi) ==
    /\ Distinct(CarriedNumbers(plain)) > 1 =>
          /\ Cardinality(NotationsOfClass(multi)) = 1
          /\ NotationsOfClass(plain) = {}
          /\ \A k \in NotationsOfClass(multi) :
                InFirstOccurrenceOrder(imported_chord[1].notations[k].numbers, CarriedNumbers(plain))
    /\ Distinct(CarriedNumbers(plain)) = 1 =>
          /\ Cardinality(NotationsOfClass(plain)) = 1
          /\ NotationsOfClass(multi) = {}
          /\ \A k \in NotationsOfClass(plain) :
                imported_chord[1].notations[k].numbers = <<CarriedNumbers(plain)[1]>>

\* C6: import_chord consolidates glissando starts by distinct number: with
\* d > 1 distinct start numbers the chord's notations hold exactly one
\* StartMultiGliss, its numbers those d numbers in order of first
\* occurrence, and no StartGliss; with d = 1 exactly one plain StartGliss
\* and no StartMultiGliss; the same for glissando stops.
C6_GlissConsolidated ==
    (comp = "chord" /\ pc = "done" /\ imported_chord # <<>>) =>
        /\ ConsolidatedAsClaimed("StartGliss", "StartMultiGliss")
        /\ ConsolidatedAsClaimed("StopGliss", "StopMultiGliss")

\* starts numbered 3 and 2 on the two notes, the 3 met twice: the chord
\* carries one StartMultiGliss with numbers 3, 2
C6_Witness ==
    /\ comp = "chord"
    /\ pc = "done"
    /\ imported_chord # <<>>
    /\ CarriedNumbers("StartGliss") = <<3, 2, 3>>
    /\ imported_chord[1].notations = <<Notation("StartMultiGliss", <<3, 2>>)>>


(***************************************************************************)
(* Claims about number texts                                               *)
(***************************************************************************)
\* C11: non-numeric text where a number is expected (a note's duration, a
\* pitch's alteration, a metronome's per-minute, a direction's offset) never
\* aborts the import: the value is treated as absent or default, only the
\* computation depending on it is skipped, and import returns a Score.
C11_NonNumericNeverAborts ==
    comp = "texts" =>
        /\ pc # "raised"
        /\ \A k \in 1..Len(conversions) :
              conversions[k].text = Bad => conversions[k].effect \in {"skipped", "default"}


(***************************************************************************)
(* Claims about import_direction                                           *)
(***************************************************************************)
\* every child of the direction, in document order
RECURSIVE AllShapes(_)
AllShapes(dts) == IF dts = <<>> THEN <<>> ELSE dts[1] \o AllShapes(Tail(dts))

DirectionHas(tag, type) ==
    \E k \in 1..Len(AllShapes(direction_types)) :
       AllShapes(direction_types)[k] = Shape(tag, type)

\* the direction holds words and start spanners of the one kind, nothing else
WordsWithStart(tag) ==
    /\ DirectionHas("words", "text")
    /\ DirectionHas(tag, "start")
    /\ \A k \in 1..Len(AllShapes(direction_types)) :
          AllShapes(direction_types)[k] \in {Shape("words", "text"), Shape(tag, "start")}

\* C12: for any direction that contains a words element together with a
\* bracket start or a dashes start, import_direction returns the start
\* spanner with the words attached as its text, and never a separate
\* TextAnnotation.
C12_WordsAttachedToSpanner ==
    (comp = "direction" /\ pc = "returned") =>
        /\ WordsWithStart("bracket") =>
              direction = <<DirectionObject("StartBracket", <<TextAnnotation>>)>>
        /\ WordsWithStart("dashes") =>
              direction = <<DirectionObject("StartDashes", <<TextAnnotation>>)>>

\* a child that import_direction turns into an object when it stands alone
Recognized(shape) == shape.type \notin {"continue", "unrecognized", "invalid"}

\* the place of a shape's tag in the priority order dashes, wedge, pedal,
\* dynamics, metronome, bracket, plain text
Priority(shape) ==
    CASE shape.tag = "dashes" -> 1
      [] shape.tag = "wedge" -> 2
      [] shape.tag = "pedal" -> 3
      [] shape.tag = "dynamics" -> 4
      [] shape.tag = "metronome" -> 5
      [] shape.tag = "bracket" -> 6
      [] shape.tag = "words" -> 7

\* the class of the object a recognized shape is turned into
ClassOf(shape) ==
    CASE shape = Shape("dashes", "start") -> "StartDashes"
      [] shape = Shape("dashes", "stop") -> "StopDashes"
      [] shape = Shape("wedge", "crescendo") -> "StartHairpin"
      [] shape = Shape("pedal", "start") -> "StartPedal"
      [] shape = Shape("dynamics", "f") -> "Dynamic"
      [] shape = Shape("metronome", "valid") -> "MetronomeMark"
      [] shape = Shape("bracket", "start") -> "StartBracket"
      [] shape = Shape("bracket", "stop") -> "StopBracket"
      [] shape = Shape("words", "text") -> "TextAnnotation"

\* the direction is one direction-type whose children are recognized shapes
\* of more than one kind
SeveralShapes ==
    /\ Len(direction_types) = 1
    /\ \A k \in 1..Len(direction_types[1]) : Recognized(direction_types[1][k])
    /\ \E j, k \in 1..Len(direction_types[1]) :
          direction_types[1][j].tag # direction_types[1][k].tag

\* C19: when a single direction-type contains more than one recognized
\* shape, import_direction returns the one that comes first in the priority
\* order dashes, wedge, pedal, dynamics, metronome, bracket, plain text.
C19_FirstShapeByPriority ==
    (comp = "direction" /\ pc = "returned" /\ SeveralShapes) =>
        /\ direction # <<>>
        /\ \E k \in 1..Len(direction_types[1]) :
              /\ \A j \in 1..Len(direction_types[1]) :
                    Priority(direction_types[1][k]) <= Priority(direction_types[1][j])
              /\ direction[1].cls = ClassOf(direction_types[1][k])


(***************************************************************************)
(* Claims about the part list                                              *)
(***************************************************************************)
IsPartGroup(k) == part_list[k].tag = "part-group"

IsScorePart(k) == part_list[k].tag = "score-part"

GroupIndices == { k \in 1..Len(part_list) : IsPartGroup(k) }

\* the part-group elements of the list are, in turn, a start, its stop, a
\* start, its stop, ..., and every score-part has its part element
WellFormedPartList ==
    /\ \A k \in GroupIndices :
          part_list[k].type =
             IF Cardinality({ j \in GroupIndices : j < k }) % 2 = 0 THEN "start" ELSE "stop"
    /\ Cardinality(GroupIndices) % 2 = 0
    /\ \A k \in 1..Len(part_list) : IsScorePart(k) => part_list[k].id \in part_elems

\* score-part k lies between a start and its stop
InsideGroup(k) == Cardinality({ j \in GroupIndices : j < k }) % 2 = 1

\* the start that the stop at index k closes
StartOf(k) == CHOOSE j \in GroupIndices : j < k /\ \A m \in GroupIndices : m < k => m <= j

RECURSIVE PartsBetween(_, _)
\* the Parts of the score-parts listed strictly between indices i and j
PartsBetween(i, j) ==
    IF i + 1 >= j THEN <<>>
    ELSE (IF IsScorePart(i + 1) THEN <<Part(part_list[i + 1].id)>> ELSE <<>>)
         \o PartsBetween(i + 1, j)

\* the group node the claim expects for the parts listed in a group
GroupOf(parts) == [kind |-> "PartGroup", id |-> 0, parts |-> parts]

RECURSIVE ExpectedContents(_)
\* what the part list from index k on gives: a Part for a score-part outside
\* any group, a PartGroup at the place of each group that lists some part
ExpectedContents(k) ==
    IF k > Len(part_list) THEN <<>>
    ELSE (IF IsScorePart(k)
          THEN IF InsideGroup(k) THEN <<>> ELSE <<Part(part_list[k].id)>>
          ELSE IF part_list[k].type = "stop" /\ PartsBetween(StartOf(k), k) # <<>>
               THEN <<GroupOf(PartsBetween(StartOf(k), k))>>
               ELSE <<>>)
         \o ExpectedContents(k + 1)

C14_RoundTripNoteCount ==
    (comp = "groups" /\ pc # "identify") =>
        ExportedNotes(all_elements) = NumNotes


(***************************************************************************)
(* Claims about the passes of identify_groups_in_measure                   *)
(***************************************************************************)
\* the note indices an emitted node covers
Covered(node) == node.idx..node.end

\* C15: the tuplet pass, the beam pass and the leftover pass claim pairwise
\* disjoint index sets: no note index is covered by more than one emitted
\* node, so no note appears twice in the measure's content.
C15_PassesDisjoint ==
    (comp = "groups" /\ pc # "identify") =>
        \A j, k \in 1..Len(all_elements) :
           j # k => Covered(all_elements[j]) \cap Covered(all_elements[k]) = {}

NoTupletMarkers == \A i \in 1..NumNotes : note_elems[i].tuplet = "none"

SameRatio(i, j) == note_elems[i].tm # <<>> /\ note_elems[i].tm = note_elems[j].tm

\* a..b is a maximal run of two or more consecutive notes, none of them a
\* chord member, that carry one time-modification with actual # normal
MaximalRun(a, b) ==
    /\ a < b
    /\ \A i \in a..b : ~IsChord(i) /\ ValidRatio(note_elems[i]) /\ SameRatio(a, i)
    /\ a > 1 => ~SameRatio(a, a - 1)
    /\ b < NumNotes => ~SameRatio(a, b + 1)

SpansStartingIn(a, b) ==
    { k \in 1..Len(tuplet_groups) : tuplet_groups[k].start \in a..b }

\* C16: for a maximal run of n >= 2 consecutive notes with the same
\* time-modification ratio (actual # normal) and no explicit tuplet markers,
\* the tuplet pass resolves exactly one span: it starts at the run's first
\* index and extends to its last, and no second span starts inside it.
C16_OneInferredSpanPerRun ==
    (comp = "groups" /\ pc # "identify" /\ NoTupletMarkers) =>
        \A a, b \in 1..NumNotes :
           MaximalRun(a, b) =>
              /\ Cardinality(SpansStartingIn(a, b)) = 1
              /\ \A k \in SpansStartingIn(a, b) :
                    tuplet_groups[k] = [start |-> a, end |-> b]

NoteVoice(i) == IF note_elems[i].voice = <<>> THEN 1 ELSE note_elems[i].voice[1]

\* the span was opened by a tuplet-start and closed by a tuplet-stop
ExplicitGroup(g) ==
    note_elems[g.start].tuplet = "start" /\ note_elems[g.end].tuplet = "stop"

\* C17: a pending explicit tuplet span is closed only by a tuplet-stop on a
\* note whose voice equals the voice of the note that opened it, and the
\* resulting Tuplet contains no note of another voice.
C17_StopOfSameVoiceCloses ==
    (comp = "groups" /\ pc # "identify") =>
        \A k \in 1..Len(tuplet_groups) :
           ExplicitGroup(tuplet_groups[k]) =>
              /\ NoteVoice(tuplet_groups[k].end) = NoteVoice(tuplet_groups[k].start)
              /\ \A j \in TupletsAt(tuplet_groups[k].start) :
                    \A m \in 1..Len(all_elements[j].contents) :
                       VoiceNumberOf(all_elements[j].contents[m])
                           = NoteVoice(tuplet_groups[k].start)

BeamAt(i, level) ==
    IF Len(note_elems[i].beams) >= level THEN note_elems[i].beams[level] ELSE "none"

\* the primary beam begins at a, ends at b and continues in between, and a
\* secondary beam begins or ends strictly between a and b
PrimaryWithSecondary(a, b) ==
    /\ a < b
    /\ \A i \in a..b : ~IsChord(i)
    /\ BeamAt(a, 1) = "begin"
    /\ BeamAt(b, 1) = "end"
    /\ \A i \in (a + 1)..(b - 1) : BeamAt(i, 1) = "continue"
    /\ \E i \in (a + 1)..(b - 1) : BeamAt(i, 2) \in {"begin", "end"}

GroupsTouching(a, b) ==
    { k \in 1..Len(all_elements) :
         /\ all_elements[k].type = "BeamedGroup"
         /\ Covered(all_elements[k]) \cap (a..b) # {} }

\* C18: beam levels are collapsed into one grouping: when a primary beam
\* begins at a and ends at b and secondary beams begin or end strictly
\* between, the beam pass emits exactly one BeamedGroup, placed at a, that
\* contains all lead notes of a..b.
C18_BeamLevelsCollapsed ==
    (comp = "groups" /\ pc # "identify") =>
        \A a, b \in 1..NumNotes :
           PrimaryWithSecondary(a, b) =>
              /\ Cardinality(GroupsTouching(a, b)) = 1
              /\ \A k \in GroupsTouching(a, b) :
                    /\ all_elements[k].idx = a
                    /\ ContentIndices(all_elements[k]) = LeadsIn(a, b)

(***************************************************************************)
(* Claims about what moves the cursor                                      *)
(***************************************************************************)
\* C20: a chord-flagged note leaves the cursor unchanged and adds no
\* displacement entry, a grace note records the current cursor and leaves
\* it unchanged, and a direction or harmony, with or without an offset,
\* leaves the cursor unchanged.
C20_CursorFrame ==
    comp = "measure" =>
        \A k \in 1..Len(cursors) :
           /\ (children[k].tag = "note" /\ children[k].chord) =>
                 /\ cursors[k] = CursorBefore(k)
                 /\ element_positions[k] = <<>>
           /\ (children[k].tag = "note" /\ ~children[k].chord /\ children[k].grace) =>
                 /\ cursors[k] = CursorBefore(k)
                 /\ element_positions[k] = <<CursorBefore(k)>>
           /\ children[k].tag \in {"direction", "harmony"} =>
                 cursors[k] = CursorBefore(k)

\* a note of 4 ticks, then a grace note, then a direction with an offset:
\* the cursor stays at 4
C20_Witness ==
    /\ comp = "measure"
    /\ Len(cursors) = 3
    /\ children[1].tag = "note" /\ children[1].duration = Num(4)
    /\ ~children[1].chord /\ ~children[1].grace
    /\ children[2].tag = "note" /\ children[2].grace
    /\ children[3].tag = "direction" /\ children[3].offset = Num(2)
    /\ cursors = <<4, 4, 4>>
    /\ element_positions[2] = <<4>>


(***************************************************************************)
(* Claims about a duration text that is not a number                       *)
(***************************************************************************)
\* child k is a regular note, a forward or a backup whose duration text
\* float() rejects
BadDuration(k) ==
    /\ children[k].duration = Bad
    /\ \/ children[k].tag \in {"forward", "backup"}
       \/ children[k].tag = "note" /\ ~children[k].chord /\ ~children[k].grace

\* the first n children without child k
Without(k, n) ==
    [i \in 1..(n - 1) |-> IF i < k THEN children[i] ELSE children[i + 1]]

RECURSIVE EntriesFrom(_, _, _)
\* the entries the pass records for the elements seq[i], seq[i+1], ...
\* when it reaches seq[i] with the cursor at position
EntriesFrom(seq, i, position) ==
    IF i > Len(seq) THEN <<>>
    ELSE LET r == PositionStep(seq[i], position, divisions)
         IN  <<r.entry>> \o EntriesFrom(seq, i + 1, r.position)

\* C21: a regular note, forward or backup whose duration text is
\* non-numeric gets no displacement entry and does not move the cursor,
\* and every later element of the measure gets the same displacement it
\* would get if that element were absent.
C21_BadDurationIsSkipped ==
    comp = "measure" =>
        \A k \in 1..Len(cursors) :
           BadDuration(k) =>
              /\ element_positions[k] = <<>>
              /\ cursors[k] = CursorBefore(k)
              /\ \A i \in 1..(Len(cursors) - 1) :
                    EntriesFrom(Without(k, Len(cursors)), 1, 0)[i]
                       = element_positions[IF i < k THEN i ELSE i + 1]

\* a note of 4 ticks, a forward with a bad duration, then a direction with
\* an offset of 2: the direction is placed at 6 ticks
C21_Witness ==
    /\ comp = "measure"
    /\ Len(cursors) = 3
    /\ children[1].tag = "note" /\ children[1].duration = Num(4)
    /\ ~children[1].chord /\ ~children[1].grace
    /\ children[2].tag = "forward" /\ children[2].duration = Bad
    /\ children[3].tag = "direction" /\ children[3].offset = Num(2)
    /\ element_positions = << <<0>>, <<>>, <<6>> >>


(***************************************************************************)
(* Claims about discarded spans, empty chords and the order of the nodes   *)
(***************************************************************************)
IsLeaf(node) == node.type \in {"Note", "Rest", "Chord"}

\* the places where lead note i stands outside any Tuplet: as a node of
\* the list or as a content of a BeamedGroup of the list
OutsideTuplet(i) ==
    { <<k, 0>> : k \in { m \in 1..Len(all_elements) :
                            IsLeaf(all_elements[m]) /\ all_elements[m].idx = i } }
    \cup { <<k, j>> \in (1..Len(all_elements)) \X (1..NumNotes) :
              /\ all_elements[k].type = "BeamedGroup"
              /\ j <= Len(all_elements[k].contents)
              /\ all_elements[k].contents[j].idx = i }

\* the Tuplets of the list that hold lead note i
TupletsHolding(i) ==
    { k \in 1..Len(all_elements) :
         /\ all_elements[k].type = "Tuplet"
         /\ \E j \in 1..Len(all_elements[k].contents) :
               all_elements[k].contents[j].idx = i }

\* the span's first note has no time-modification or has actual = normal
Discarded(g) == ~ValidRatio(note_elems[g.start])

\* C22: when the first note of a resolved tuplet span has no
\* time-modification or has actual = normal, no Tuplet is emitted for the
\* span, its indices are not marked processed by the tuplet pass, and every
\* lead note of the span (that imports to a node) still appears exactly
\* once in the measure's content, outside any Tuplet.
C22_DiscardedSpanFallsThrough ==
    (comp = "groups" /\ pc # "identify") =>
        \A k \in 1..Len(tuplet_groups) :
           Discarded(tuplet_groups[k]) =>
              LET g == tuplet_groups[k]
              IN  /\ \A m \in TupletsAt(g.start) : all_elements[m].end # g.end
                  /\ \A i \in g.start..g.end :
                        ~IsChord(i) =>
                           /\ i \notin processed_indices.tuplet
                           /\ Yields(i, NumNotes) =>
                                 /\ Cardinality(OutsideTuplet(i)) = 1
                                 /\ TupletsHolding(i) = {}


\* the nodes of the list and the nodes inside its groups
EmittedNodes ==
    { all_elements[k] : k \in 1..Len(all_elements) }
    \cup UNION { { all_elements[k].contents[j] : j \in 1..Len(all_elements[k].contents) } :
                    k \in 1..Len(all_elements) }

\* lead note i has chord-flagged followers and none of them all has a pitch
PitchlessChord(i) ==
    /\ ~IsChord(i)
    /\ LastFollower(i, NumNotes) > i
    /\ PitchesOf(i, LastFollower(i, NumNotes)) = <<>>

C24_NodesInDocumentOrder ==
    (comp = "groups" /\ pc # "identify") =>
        /\ \A j, k \in 1..Len(all_elements) :
              j < k => all_elements[j].idx < all_elements[k].idx
        /\ note_elems = OrderDocument =>
              /\ [k \in 1..Len(all_elements) |-> all_elements[k].type]
                    = <<"Note", "BeamedGroup", "Chord">>
              /\ [k \in 1..Len(all_elements) |-> all_elements[k].idx] = <<1, 2, 6>>

\* the quarter note, the beamed group and the chord of the test's measure
C24_Witness ==
    /\ comp = "groups"
    /\ pc = "done"
    /\ note_elems = OrderDocument
    /\ Len(all_elements) = 3
    /\ Len(all_elements[2].contents) = 4
    /\ Len(all_elements[3].pitches) = 3


(***************************************************************************)
(* Claims about chord members                                              *)
(***************************************************************************)
\* the lead notes before chord member j
LeadsBefore(j) == { i \in 1..(j - 1) : ~IsChord(i) }

\* the lead note of chord member j: the nearest lead note before it
LeadOf(j) == CHOOSE i \in LeadsBefore(j) : \A m \in LeadsBefore(j) : m <= i

PitchIndices(node) == { node.pitches[m] : m \in 1..Len(node.pitches) }

\* C27: every chord-flagged note is folded into the chord of its lead note,
\* also when the lead note is the last index of a tuplet or beam span and
\* its chord-flagged followers lie after the span's end index: the lead is
\* emitted as a Chord that includes those followers' pitches, and no pitch
\* of the measure is dropped.
C27_FollowersFolded ==
    (comp = "groups" /\ pc # "identify") =>
        \A j \in 1..NumNotes :
           (/\ IsChord(j)
            /\ note_elems[j].kind = "pitch"
            /\ LeadsBefore(j) # {}) =>
              \E n \in EmittedNodes :
                 /\ n.type = "Chord"
                 /\ n.idx = LeadOf(j)
                 /\ j \in PitchIndices(n)


(***************************************************************************)
(* Claims about the Measure's attributes                                   *)
(***************************************************************************)
\* C25: the Measure produced by _import_measure carries the barline of the
\* measure's XML: a measure whose XML gives a barline imports to a Measure
\* whose barline attribute is that barline, not an absent one.
C25_BarlineCarried ==
    (comp = "attributes" /\ pc = "done") =>
        (measure_elem.barline # <<>> => measure[1].barline = measure_elem.barline)


(***************************************************************************)
(* Claims about the divisor of the position pass                           *)
(***************************************************************************)
\* the pass divides a number of child c by divisions
Converts(c) ==
    \/ c.tag = "note" /\ ~c.chord /\ ~c.grace /\ IsNumeric(c.duration)
    \/ c.tag \in {"forward", "backup"} /\ IsNumeric(c.duration)
    \/ c.tag \in {"direction", "harmony"} /\ IsNumeric(c.offset)

\* C28: the divisions value used as the divisor in the position pass is
\* never zero: for every divisions text a measure can carry, including "0",
\* and for every inherited value, the conversion duration/divisions is
\* performed with a non-zero divisor and _import_measure completes.
C28_DivisorNeverZero ==
    comp = "measure" =>
        /\ \A k \in 1..Len(children) : Converts(children[k]) => divisions # 0
        /\ pc # "raised"


(***************************************************************************)
(* Claims about the part list, whatever its part-group elements            *)
(***************************************************************************)
\* the places of the Score's contents where the Part with this id stands:
\* <<k, 0>> at the top level, <<k, j>> as part j of the PartGroup k
PlacesOf(id) ==
    { <<k, 0>> : k \in { m \in 1..Len(parts_and_groups) :
                            /\ parts_and_groups[m].kind = "Part"
                            /\ parts_and_groups[m].id = id } }
    \cup { <<k, j>> \in (1..Len(parts_and_groups)) \X (1..MaxPartList) :
              /\ parts_and_groups[k].kind = "PartGroup"
              /\ j <= Len(parts_and_groups[k].parts)
              /\ parts_and_groups[k].parts[j].id = id }

\* the score-part entries of the part list with this id
EntriesOf(id) == { k \in 1..Len(part_list) : IsScorePart(k) /\ part_list[k].id = id }

\* C26: for any sequence of part-group start, part-group stop and
\* score-part entries in the part-list, including nested starts, stops
\* without a start and groups left unclosed, every score-part that has a
\* matching part element appears exactly once in the Score's contents,
\* either as a top-level Part or inside exactly one PartGroup.
C26_EveryPartOnce ==
    (comp = "score" /\ outcome = "Score") =>
        \A id \in part_elems : Cardinality(PlacesOf(id)) = Cardinality(EntriesOf(id))


(***************************************************************************)
(* Claims about import_duration                                            *)
(***************************************************************************)
\* C29: the dot count of an imported Duration equals the number of dot
\* children of the note element, for 0, 1 and 2 dots, when import_duration
\* is called with the importer's own _find_element, which returns the
\* first matching element or none.
C29_DotCount ==
    (comp = "duration" /\ pc = "done" /\ dotted_note.finder = "first"
        /\ dotted_note.dots \in 0..2) =>
        imported_duration[1].num_dots = dotted_note.dots


================================================================
